---------------------------- MODULE Spec2Model ----------------------------
(***************************************************************************)
(* A model of the 6502 emulator in src/emulator.js: the CPU6502 class      *)
(* (registers, memory, the instruction handlers, step, run, reset), the    *)
(* two-pass Assembler, and the EmulatorApp handlers that drive them.       *)
(*                                                                         *)
(* Source text is modelled character by character: a line is a sequence of *)
(* one-character strings and a source is the sequence of its lines (the    *)
(* result of source.split('\n')).                                          *)
(***************************************************************************)
EXTENDS Integers, Sequences, FiniteSets, TLC

VARIABLES
    cpu,        \* the CPU6502 instance: its registers, memory and flags
    labels,     \* Assembler.labels
    frame,      \* the run() call in progress: its position and stepCount
    last,       \* the last call that returned: its name, inputs and result
    calls       \* the step and run calls made since the CPU was last reset

vars == <<cpu, labels, frame, last, calls>>

-----------------------------------------------------------------------------
(* With(v, F) is F(v) with v evaluated once, before F is applied: the      *)
(* binding of a local constant or of a loop variable in the source.        *)

With(v, F(_)) == CHOOSE y \in {F(x) : x \in {v}} : TRUE

-----------------------------------------------------------------------------
(* Bit operations on JavaScript numbers.  JavaScript's &, | and ^ act on   *)
(* the 32-bit two's complement image of their operands.  Every operand in  *)
(* this program has magnitude below 2^17 and every result is masked to at  *)
(* most 16 bits or tested against a mask of at most 0x80, so the low 24    *)
(* bits of the image decide each use.                                      *)

ToBits(n) == n % 16777216

RECURSIVE BitAndN(_, _)
BitAndN(a, b) ==
    IF a = 0 \/ b = 0 THEN 0
    ELSE (IF a % 2 = 1 /\ b % 2 = 1 THEN 1 ELSE 0) + 2 * BitAndN(a \div 2, b \div 2)

RECURSIVE BitXorN(_, _)
BitXorN(a, b) ==
    IF a = 0 THEN b
    ELSE IF b = 0 THEN a
    ELSE (IF a % 2 # b % 2 THEN 1 ELSE 0) + 2 * BitXorN(a \div 2, b \div 2)

RECURSIVE BitOrN(_, _)
BitOrN(a, b) ==
    IF a = 0 THEN b
    ELSE IF b = 0 THEN a
    ELSE (IF a % 2 = 1 \/ b % 2 = 1 THEN 1 ELSE 0) + 2 * BitOrN(a \div 2, b \div 2)

\* NaN, the result of parseInt when no digit could be read.  It is no integer
\* a line of the model can spell, written or negated.
NaN == -2147483647

\* a & b, a | b, a ^ b, ~a
BitAnd(a, b) == BitAndN(ToBits(a), ToBits(b))

BitOr(a, b) == BitOrN(ToBits(a), ToBits(b))

BitXor(a, b) == BitXorN(ToBits(a), ToBits(b))

BitNot(a) == -a - 1

\* v & mask and v >> 8 on a number that may be NaN: NaN converts to 0
numAnd(v, mask) == IF v = NaN THEN 0 ELSE BitAnd(v, mask)

numShr8(v) == IF v = NaN THEN 0 ELSE v \div 256

-----------------------------------------------------------------------------
(* CPU6502.reset: the flag masks.                                          *)
FLAG_CARRY     == \h01
FLAG_ZERO      == \h02
FLAG_INTERRUPT == \h04
FLAG_DECIMAL   == \h08
FLAG_BREAK     == \h10
FLAG_UNUSED    == \h20
FLAG_OVERFLOW  == \h40
FLAG_NEGATIVE  == \h80

\* new Uint8Array(0x10000): every byte 0.  Memory is kept as the function
\* from the addresses that hold a non-zero byte to that byte.
ZeroMemory == <<>>

\* CPU6502.reset().  A CPU that was never assembled or run is in this state.
resetState ==
    [A |-> \h00, X |-> \h00, Y |-> \h00, PC |-> \h0600, SP |-> \hFF, P |-> \h20,
     memory |-> ZeroMemory, cycles |-> 0, running |-> FALSE, assembled |-> FALSE]

\* setFlag(flag, value): P |= flag, or P &= ~flag.
setFlag(c, flag, value) ==
    [c EXCEPT !.P = IF value THEN BitOr(@, flag)
                             ELSE BitAnd(@, BitNot(flag))]

getFlag(c, flag) == BitAnd(c.P, flag) # 0

\* updateZeroAndNegativeFlags testing value > 0x80 for the sign.
updateFlagsAbove80(c, value) ==
    setFlag(setFlag(c, FLAG_ZERO, value = 0), FLAG_NEGATIVE, value > \h80)

updateZeroAndNegativeFlags(c, value) ==
    setFlag(setFlag(c, FLAG_ZERO, value = 0),
            FLAG_NEGATIVE, BitAnd(value, \h80) # 0)

\* memory[address & 0xFFFF]
memRead(mem, address) ==
    LET a == address % 65536 IN IF a \in DOMAIN mem THEN mem[a] ELSE 0

\* memory[address & 0xFFFF] = value & 0xFF
memWrite(mem, address, value) ==
    LET a == address % 65536
        b == numAnd(value, \hFF)
    IN  IF b = 0 THEN [x \in DOMAIN mem \ {a} |-> mem[x]]
        ELSE [x \in DOMAIN mem \cup {a} |-> IF x = a THEN b ELSE mem[x]]

read(c, address) == memRead(c.memory, address)

write(c, address, value) == [c EXCEPT !.memory = memWrite(@, address, value)]

\* getOperand without the conversion of a relative offset to a signed value.
getOperandUnsigned(c, mode) ==
    CASE mode = "immediate" ->
            [c |-> [c EXCEPT !.PC = @ + 1], v |-> read(c, c.PC)]
      [] mode = "zeropage" ->
            [c |-> [c EXCEPT !.PC = @ + 1], v |-> read(c, read(c, c.PC))]
      [] mode = "absolute" ->
            LET low  == read(c, c.PC)
                high == read(c, c.PC + 1)
            IN  [c |-> [c EXCEPT !.PC = @ + 2], v |-> read(c, high * 256 + low)]
      [] mode = "relative" ->
            [c |-> [c EXCEPT !.PC = @ + 1], v |-> read(c, c.PC)]
      [] OTHER -> [c |-> c, v |-> 0]

\* getOperand(mode): the operand value, and the CPU with PC advanced past
\* the operand bytes (this.PC++ is not masked to 16 bits).
getOperand(c, mode) ==
    CASE mode = "immediate" ->
            [c |-> [c EXCEPT !.PC = @ + 1], v |-> read(c, c.PC)]
      [] mode = "zeropage" ->
            [c |-> [c EXCEPT !.PC = @ + 1], v |-> read(c, read(c, c.PC))]
      [] mode = "absolute" ->
            LET low  == read(c, c.PC)
                high == read(c, c.PC + 1)
            IN  [c |-> [c EXCEPT !.PC = @ + 2], v |-> read(c, high * 256 + low)]
      [] mode = "relative" ->
            LET offset == read(c, c.PC)
            IN  [c |-> [c EXCEPT !.PC = @ + 1],
                 v |-> IF offset > 127 THEN offset - 256 ELSE offset]
      [] OTHER -> [c |-> c, v |-> 0]

\* getAddress with one this.PC++ left out of the absolute case.
getAddressOnePlus(c, mode) ==
    CASE mode = "zeropage" ->
            [c |-> [c EXCEPT !.PC = @ + 1], v |-> read(c, c.PC)]
      [] mode = "absolute" ->
            LET low  == read(c, c.PC)
                high == read(c, c.PC + 1)
            IN  [c |-> [c EXCEPT !.PC = @ + 1], v |-> high * 256 + low]
      [] OTHER -> [c |-> c, v |-> 0]

\* getAddress(mode): the effective address, and the CPU with PC advanced.
getAddress(c, mode) ==
    CASE mode = "zeropage" ->
            [c |-> [c EXCEPT !.PC = @ + 1], v |-> read(c, c.PC)]
      [] mode = "absolute" ->
            LET low  == read(c, c.PC)
                high == read(c, c.PC + 1)
            IN  [c |-> [c EXCEPT !.PC = @ + 2], v |-> high * 256 + low]
      [] OTHER -> [c |-> c, v |-> 0]

-----------------------------------------------------------------------------
(* The instruction handlers.  Each takes the CPU after the opcode fetch    *)
(* and gives the CPU after the instruction.                                *)

LDA(c, mode) ==
    LET o == getOperand(c, mode)
    IN  updateZeroAndNegativeFlags([o.c EXCEPT !.A = o.v], o.v)

LDX(c, mode) ==
    LET o == getOperand(c, mode)
    IN  updateZeroAndNegativeFlags([o.c EXCEPT !.X = o.v], o.v)

LDY(c, mode) ==
    LET o == getOperand(c, mode)
    IN  updateZeroAndNegativeFlags([o.c EXCEPT !.Y = o.v], o.v)

\* STA that also sets Z and N from the value stored.
STASetsFlags(c, mode) ==
    LET o == getAddress(c, mode)
    IN  updateZeroAndNegativeFlags(write(o.c, o.v, o.c.A), o.c.A)

STA(c, mode) ==
    LET o == getAddress(c, mode) IN write(o.c, o.v, o.c.A)

STX(c, mode) ==
    LET o == getAddress(c, mode) IN write(o.c, o.v, o.c.X)

STY(c, mode) ==
    LET o == getAddress(c, mode) IN write(o.c, o.v, o.c.Y)

\* ADC with the carry set from result >= 0xFF.
ADCCarryAtFF(c, mode) ==
    LET o      == getOperand(c, mode)
        value  == o.v
        carry  == IF getFlag(o.c, FLAG_CARRY) THEN 1 ELSE 0
        result == o.c.A + value + carry
        c1     == setFlag(o.c, FLAG_CARRY, result >= \hFF)
        c2     == setFlag(c1, FLAG_OVERFLOW,
                     BitAnd(BitAnd(BitXor(o.c.A, result), BitXor(value, result)),
                            \h80) # 0)
        a      == BitAnd(result, \hFF)
    IN  updateZeroAndNegativeFlags([c2 EXCEPT !.A = a], a)

ADC(c, mode) ==
    LET o      == getOperand(c, mode)
        value  == o.v
        carry  == IF getFlag(o.c, FLAG_CARRY) THEN 1 ELSE 0
        result == o.c.A + value + carry
        c1     == setFlag(o.c, FLAG_CARRY, result > \hFF)
        c2     == setFlag(c1, FLAG_OVERFLOW,
                     BitAnd(BitAnd(BitXor(o.c.A, result), BitXor(value, result)),
                            \h80) # 0)
        a      == BitAnd(result, \hFF)
    IN  updateZeroAndNegativeFlags([c2 EXCEPT !.A = a], a)

\* SBC with the overflow taken as ADC takes it, from the operand's sign
\* against the result's.
SBCOverflowOfSum(c, mode) ==
    LET o      == getOperand(c, mode)
        value  == o.v
        carry  == IF getFlag(o.c, FLAG_CARRY) THEN 0 ELSE 1
        result == o.c.A - value - carry
        c1     == setFlag(o.c, FLAG_CARRY, result >= 0)
        c2     == setFlag(c1, FLAG_OVERFLOW,
                     BitAnd(BitAnd(BitXor(o.c.A, result), BitXor(value, result)),
                            \h80) # 0)
        a      == BitAnd(result, \hFF)
    IN  updateZeroAndNegativeFlags([c2 EXCEPT !.A = a], a)

\* SBC with the carry set from result > 0.
SBCCarryAbove0(c, mode) ==
    LET o      == getOperand(c, mode)
        value  == o.v
        carry  == IF getFlag(o.c, FLAG_CARRY) THEN 0 ELSE 1
        result == o.c.A - value - carry
        c1     == setFlag(o.c, FLAG_CARRY, result > 0)
        c2     == setFlag(c1, FLAG_OVERFLOW,
                     BitAnd(BitXor(o.c.A, result),
                            BitAnd(BitXor(o.c.A, value), \h80)) # 0)
        a      == BitAnd(result, \hFF)
    IN  updateZeroAndNegativeFlags([c2 EXCEPT !.A = a], a)

SBC(c, mode) ==
    LET o      == getOperand(c, mode)
        value  == o.v
        carry  == IF getFlag(o.c, FLAG_CARRY) THEN 0 ELSE 1
        result == o.c.A - value - carry
        c1     == setFlag(o.c, FLAG_CARRY, result >= 0)
        c2     == setFlag(c1, FLAG_OVERFLOW,
                     BitAnd(BitXor(o.c.A, result),
                            BitAnd(BitXor(o.c.A, value), \h80)) # 0)
        a      == BitAnd(result, \hFF)
    IN  updateZeroAndNegativeFlags([c2 EXCEPT !.A = a], a)

INX(c, mode) ==
    LET x == BitAnd(c.X + 1, \hFF)
    IN  updateZeroAndNegativeFlags([c EXCEPT !.X = x], x)

INY(c, mode) ==
    LET y == BitAnd(c.Y + 1, \hFF)
    IN  updateZeroAndNegativeFlags([c EXCEPT !.Y = y], y)

DEX(c, mode) ==
    LET x == BitAnd(c.X - 1, \hFF)
    IN  updateZeroAndNegativeFlags([c EXCEPT !.X = x], x)

DEY(c, mode) ==
    LET y == BitAnd(c.Y - 1, \hFF)
    IN  updateZeroAndNegativeFlags([c EXCEPT !.Y = y], y)

\* CMP, CPX and CPY share this body, each on its own register.
\* The comparison with the carry set from reg > value.
compareAbove(c, mode, reg) ==
    LET o      == getOperand(c, mode)
        value  == o.v
        result == reg - value
        c1     == setFlag(o.c, FLAG_CARRY, reg > value)
    IN  updateZeroAndNegativeFlags(c1, BitAnd(result, \hFF))

compare(c, mode, reg) ==
    LET o      == getOperand(c, mode)
        value  == o.v
        result == reg - value
        c1     == setFlag(o.c, FLAG_CARRY, reg >= value)
    IN  updateZeroAndNegativeFlags(c1, BitAnd(result, \hFF))

CMP(c, mode) == compare(c, mode, c.A)

CPX(c, mode) == compare(c, mode, c.X)

\* CPY leaving the carry as it was.
CPYLeavesCarry(c, mode) ==
    LET o == getOperand(c, mode)
    IN  updateZeroAndNegativeFlags(o.c, BitAnd(c.Y - o.v, \hFF))

CPY(c, mode) == compare(c, mode, c.Y)

JMP(c, mode) ==
    LET o == getAddress(c, mode) IN [o.c EXCEPT !.PC = o.v]

\* The eight branches share this body, each on its own flag test.
\* A branch that is taken whatever its condition.
branchAlways(c, mode, taken) ==
    LET o == getOperand(c, mode)
    IN  [o.c EXCEPT !.PC = BitAnd(o.c.PC + o.v, \hFFFF)]

branch(c, mode, taken) ==
    IF taken
    THEN LET o == getOperand(c, mode)
         IN  [o.c EXCEPT !.PC = BitAnd(o.c.PC + o.v, \hFFFF)]
    ELSE [c EXCEPT !.PC = @ + 1]

BNE(c, mode) == branch(c, mode, ~getFlag(c, FLAG_ZERO))

BEQ(c, mode) == branch(c, mode, getFlag(c, FLAG_ZERO))

BCC(c, mode) == branch(c, mode, ~getFlag(c, FLAG_CARRY))

BCS(c, mode) == branch(c, mode, getFlag(c, FLAG_CARRY))

BMI(c, mode) == branch(c, mode, getFlag(c, FLAG_NEGATIVE))

BPL(c, mode) == branch(c, mode, ~getFlag(c, FLAG_NEGATIVE))

BVC(c, mode) == branch(c, mode, ~getFlag(c, FLAG_OVERFLOW))

BVS(c, mode) == branch(c, mode, getFlag(c, FLAG_OVERFLOW))

NOP(c, mode) == c

\* BRK without running = false.
BRKKeepsRunning(c, mode) == setFlag(c, FLAG_BREAK, TRUE)

BRK(c, mode) == setFlag([c EXCEPT !.running = FALSE], FLAG_BREAK, TRUE)

TAX(c, mode) == updateZeroAndNegativeFlags([c EXCEPT !.X = c.A], c.A)

TAY(c, mode) == updateZeroAndNegativeFlags([c EXCEPT !.Y = c.A], c.A)

TXA(c, mode) == updateZeroAndNegativeFlags([c EXCEPT !.A = c.X], c.X)

TYA(c, mode) == updateZeroAndNegativeFlags([c EXCEPT !.A = c.Y], c.Y)

\* PHA decrementing SP before the write.
PHADecrementsFirst(c, mode) ==
    LET sp == BitAnd(c.SP - 1, \hFF)
    IN  [write(c, \h0100 + sp, c.A) EXCEPT !.SP = sp]

PHA(c, mode) ==
    [write(c, \h0100 + c.SP, c.A) EXCEPT !.SP = BitAnd(c.SP - 1, \hFF)]

PLA(c, mode) ==
    LET sp == BitAnd(c.SP + 1, \hFF)
        a  == read(c, \h0100 + sp)
    IN  updateZeroAndNegativeFlags([c EXCEPT !.SP = sp, !.A = a], a)

\* PHP pushing P as it is.
PHPAsIs(c, mode) ==
    [write(c, \h0100 + c.SP, c.P) EXCEPT !.SP = BitAnd(c.SP - 1, \hFF)]

PHP(c, mode) ==
    [write(c, \h0100 + c.SP, BitOr(c.P, FLAG_BREAK))
        EXCEPT !.SP = BitAnd(c.SP - 1, \hFF)]

\* PLP without setFlag(FLAG_UNUSED, true).
PLPAsPulled(c, mode) ==
    LET sp == BitAnd(c.SP + 1, \hFF)
        c1 == [c EXCEPT !.SP = sp, !.P = read(c, \h0100 + sp)]
    IN  setFlag(c1, FLAG_BREAK, FALSE)

PLP(c, mode) ==
    LET sp == BitAnd(c.SP + 1, \hFF)
        c1 == [c EXCEPT !.SP = sp, !.P = read(c, \h0100 + sp)]
    IN  setFlag(setFlag(c1, FLAG_BREAK, FALSE), FLAG_UNUSED, TRUE)

AND(c, mode) ==
    LET o == getOperand(c, mode)
        a == BitAnd(o.c.A, o.v)
    IN  updateZeroAndNegativeFlags([o.c EXCEPT !.A = a], a)

ORA(c, mode) ==
    LET o == getOperand(c, mode)
        a == BitOr(o.c.A, o.v)
    IN  updateZeroAndNegativeFlags([o.c EXCEPT !.A = a], a)

EOR(c, mode) ==
    LET o == getOperand(c, mode)
        a == BitXor(o.c.A, o.v)
    IN  updateZeroAndNegativeFlags([o.c EXCEPT !.A = a], a)

\* BIT taking N and V from A AND value instead of the value.
BITFromResult(c, mode) ==
    LET o      == getOperand(c, mode)
        value  == o.v
        result == BitAnd(o.c.A, value)
        c1     == setFlag(o.c, FLAG_ZERO, result = 0)
        c2     == setFlag(c1, FLAG_NEGATIVE, BitAnd(result, \h80) # 0)
    IN  setFlag(c2, FLAG_OVERFLOW, BitAnd(result, \h40) # 0)

BIT(c, mode) ==
    LET o      == getOperand(c, mode)
        value  == o.v
        result == BitAnd(o.c.A, value)
        c1     == setFlag(o.c, FLAG_ZERO, result = 0)
        c2     == setFlag(c1, FLAG_NEGATIVE, BitAnd(value, \h80) # 0)
    IN  setFlag(c2, FLAG_OVERFLOW, BitAnd(value, \h40) # 0)

\* JSR pushing the address after its last byte instead of that of its last byte.
JSRPushesNext(c, mode) ==
    LET o             == getAddress(c, mode)
        returnAddress == o.c.PC
        c1 == write(o.c, \h0100 + o.c.SP, BitAnd(returnAddress \div 256, \hFF))
        sp1 == BitAnd(o.c.SP - 1, \hFF)
        c2 == write(c1, \h0100 + sp1, BitAnd(returnAddress, \hFF))
        sp2 == BitAnd(sp1 - 1, \hFF)
    IN  [c2 EXCEPT !.SP = sp2, !.PC = o.v]

JSR(c, mode) ==
    LET o             == getAddress(c, mode)
        returnAddress == o.c.PC - 1
        c1 == write(o.c, \h0100 + o.c.SP, BitAnd(returnAddress \div 256, \hFF))
        sp1 == BitAnd(o.c.SP - 1, \hFF)
        c2 == write(c1, \h0100 + sp1, BitAnd(returnAddress, \hFF))
        sp2 == BitAnd(sp1 - 1, \hFF)
    IN  [c2 EXCEPT !.SP = sp2, !.PC = o.v]

RTS(c, mode) ==
    LET sp1  == BitAnd(c.SP + 1, \hFF)
        low  == read(c, \h0100 + sp1)
        sp2  == BitAnd(sp1 + 1, \hFF)
        high == read(c, \h0100 + sp2)
    IN  [c EXCEPT !.SP = sp2, !.PC = (high * 256 + low) + 1]

CLC(c, mode) == setFlag(c, FLAG_CARRY, FALSE)

SEC(c, mode) == setFlag(c, FLAG_CARRY, TRUE)

CLV(c, mode) == setFlag(c, FLAG_OVERFLOW, FALSE)

SEI(c, mode) == setFlag(c, FLAG_INTERRUPT, TRUE)

CLI(c, mode) == setFlag(c, FLAG_INTERRUPT, FALSE)

-----------------------------------------------------------------------------
(* CPU6502.initializeInstructions: opcode -> name, addressing mode, base  *)
(* cycle count.  The handler bound to each entry is the one of its name.  *)
InstructionTable ==
    <<
        [opcode |-> \hA9, name |-> "LDA", mode |-> "immediate", cycles |-> 2],
        [opcode |-> \hA5, name |-> "LDA", mode |-> "zeropage", cycles |-> 3],
        [opcode |-> \hAD, name |-> "LDA", mode |-> "absolute", cycles |-> 4],
        [opcode |-> \hA2, name |-> "LDX", mode |-> "immediate", cycles |-> 2],
        [opcode |-> \hA6, name |-> "LDX", mode |-> "zeropage", cycles |-> 3],
        [opcode |-> \hA0, name |-> "LDY", mode |-> "immediate", cycles |-> 2],
        [opcode |-> \hA4, name |-> "LDY", mode |-> "zeropage", cycles |-> 3],
        [opcode |-> \h85, name |-> "STA", mode |-> "zeropage", cycles |-> 3],
        [opcode |-> \h8D, name |-> "STA", mode |-> "absolute", cycles |-> 4],
        [opcode |-> \h86, name |-> "STX", mode |-> "zeropage", cycles |-> 3],
        [opcode |-> \h8E, name |-> "STX", mode |-> "absolute", cycles |-> 4],
        [opcode |-> \h84, name |-> "STY", mode |-> "zeropage", cycles |-> 3],
        [opcode |-> \h8C, name |-> "STY", mode |-> "absolute", cycles |-> 4],
        [opcode |-> \hAA, name |-> "TAX", mode |-> "implied", cycles |-> 2],
        [opcode |-> \hA8, name |-> "TAY", mode |-> "implied", cycles |-> 2],
        [opcode |-> \h8A, name |-> "TXA", mode |-> "implied", cycles |-> 2],
        [opcode |-> \h98, name |-> "TYA", mode |-> "implied", cycles |-> 2],
        [opcode |-> \h48, name |-> "PHA", mode |-> "implied", cycles |-> 3],
        [opcode |-> \h68, name |-> "PLA", mode |-> "implied", cycles |-> 4],
        [opcode |-> \h08, name |-> "PHP", mode |-> "implied", cycles |-> 3],
        [opcode |-> \h28, name |-> "PLP", mode |-> "implied", cycles |-> 4],
        [opcode |-> \h29, name |-> "AND", mode |-> "immediate", cycles |-> 2],
        [opcode |-> \h25, name |-> "AND", mode |-> "zeropage", cycles |-> 3],
        [opcode |-> \h2D, name |-> "AND", mode |-> "absolute", cycles |-> 4],
        [opcode |-> \h09, name |-> "ORA", mode |-> "immediate", cycles |-> 2],
        [opcode |-> \h05, name |-> "ORA", mode |-> "zeropage", cycles |-> 3],
        [opcode |-> \h0D, name |-> "ORA", mode |-> "absolute", cycles |-> 4],
        [opcode |-> \h49, name |-> "EOR", mode |-> "immediate", cycles |-> 2],
        [opcode |-> \h45, name |-> "EOR", mode |-> "zeropage", cycles |-> 3],
        [opcode |-> \h4D, name |-> "EOR", mode |-> "absolute", cycles |-> 4],
        [opcode |-> \h24, name |-> "BIT", mode |-> "zeropage", cycles |-> 3],
        [opcode |-> \h2C, name |-> "BIT", mode |-> "absolute", cycles |-> 4],
        [opcode |-> \h69, name |-> "ADC", mode |-> "immediate", cycles |-> 2],
        [opcode |-> \h65, name |-> "ADC", mode |-> "zeropage", cycles |-> 3],
        [opcode |-> \h6D, name |-> "ADC", mode |-> "absolute", cycles |-> 4],
        [opcode |-> \hE9, name |-> "SBC", mode |-> "immediate", cycles |-> 2],
        [opcode |-> \hE5, name |-> "SBC", mode |-> "zeropage", cycles |-> 3],
        [opcode |-> \hED, name |-> "SBC", mode |-> "absolute", cycles |-> 4],
        [opcode |-> \hE8, name |-> "INX", mode |-> "implied", cycles |-> 2],
        [opcode |-> \hC8, name |-> "INY", mode |-> "implied", cycles |-> 2],
        [opcode |-> \hCA, name |-> "DEX", mode |-> "implied", cycles |-> 2],
        [opcode |-> \h88, name |-> "DEY", mode |-> "implied", cycles |-> 2],
        [opcode |-> \hC9, name |-> "CMP", mode |-> "immediate", cycles |-> 2],
        [opcode |-> \hC5, name |-> "CMP", mode |-> "zeropage", cycles |-> 3],
        [opcode |-> \hCD, name |-> "CMP", mode |-> "absolute", cycles |-> 4],
        [opcode |-> \hE0, name |-> "CPX", mode |-> "immediate", cycles |-> 2],
        [opcode |-> \hE4, name |-> "CPX", mode |-> "zeropage", cycles |-> 3],
        [opcode |-> \hC0, name |-> "CPY", mode |-> "immediate", cycles |-> 2],
        [opcode |-> \hC4, name |-> "CPY", mode |-> "zeropage", cycles |-> 3],
        [opcode |-> \hF0, name |-> "BEQ", mode |-> "relative", cycles |-> 2],
        [opcode |-> \hD0, name |-> "BNE", mode |-> "relative", cycles |-> 2],
        [opcode |-> \h90, name |-> "BCC", mode |-> "relative", cycles |-> 2],
        [opcode |-> \hB0, name |-> "BCS", mode |-> "relative", cycles |-> 2],
        [opcode |-> \h30, name |-> "BMI", mode |-> "relative", cycles |-> 2],
        [opcode |-> \h10, name |-> "BPL", mode |-> "relative", cycles |-> 2],
        [opcode |-> \h50, name |-> "BVC", mode |-> "relative", cycles |-> 2],
        [opcode |-> \h70, name |-> "BVS", mode |-> "relative", cycles |-> 2],
        [opcode |-> \h4C, name |-> "JMP", mode |-> "absolute", cycles |-> 3],
        [opcode |-> \h20, name |-> "JSR", mode |-> "absolute", cycles |-> 6],
        [opcode |-> \h60, name |-> "RTS", mode |-> "implied", cycles |-> 6],
        [opcode |-> \h18, name |-> "CLC", mode |-> "implied", cycles |-> 2],
        [opcode |-> \h38, name |-> "SEC", mode |-> "implied", cycles |-> 2],
        [opcode |-> \hB8, name |-> "CLV", mode |-> "implied", cycles |-> 2],
        [opcode |-> \h78, name |-> "SEI", mode |-> "implied", cycles |-> 2],
        [opcode |-> \h58, name |-> "CLI", mode |-> "implied", cycles |-> 2],
        [opcode |-> \hEA, name |-> "NOP", mode |-> "implied", cycles |-> 2],
        [opcode |-> \h00, name |-> "BRK", mode |-> "implied", cycles |-> 7]
    >>

\* this.instructions: opcode -> entry
instructions ==
    [opcode \in {InstructionTable[i].opcode : i \in 1..Len(InstructionTable)} |->
        LET i == CHOOSE i \in 1..Len(InstructionTable) :
                    InstructionTable[i].opcode = opcode
        IN  [name |-> InstructionTable[i].name, mode |-> InstructionTable[i].mode,
             cycles |-> InstructionTable[i].cycles]]

\* instruction.execute(instruction.mode): the handler bound to the entry.
execute(c, name, mode) ==
    CASE name = "LDA" -> LDA(c, mode)
      [] name = "LDX" -> LDX(c, mode)
      [] name = "LDY" -> LDY(c, mode)
      [] name = "STA" -> STA(c, mode)
      [] name = "STX" -> STX(c, mode)
      [] name = "STY" -> STY(c, mode)
      [] name = "TAX" -> TAX(c, mode)
      [] name = "TAY" -> TAY(c, mode)
      [] name = "TXA" -> TXA(c, mode)
      [] name = "TYA" -> TYA(c, mode)
      [] name = "PHA" -> PHA(c, mode)
      [] name = "PLA" -> PLA(c, mode)
      [] name = "PHP" -> PHP(c, mode)
      [] name = "PLP" -> PLP(c, mode)
      [] name = "AND" -> AND(c, mode)
      [] name = "ORA" -> ORA(c, mode)
      [] name = "EOR" -> EOR(c, mode)
      [] name = "BIT" -> BIT(c, mode)
      [] name = "ADC" -> ADC(c, mode)
      [] name = "SBC" -> SBC(c, mode)
      [] name = "INX" -> INX(c, mode)
      [] name = "INY" -> INY(c, mode)
      [] name = "DEX" -> DEX(c, mode)
      [] name = "DEY" -> DEY(c, mode)
      [] name = "CMP" -> CMP(c, mode)
      [] name = "CPX" -> CPX(c, mode)
      [] name = "CPY" -> CPY(c, mode)
      [] name = "BEQ" -> BEQ(c, mode)
      [] name = "BNE" -> BNE(c, mode)
      [] name = "BCC" -> BCC(c, mode)
      [] name = "BCS" -> BCS(c, mode)
      [] name = "BMI" -> BMI(c, mode)
      [] name = "BPL" -> BPL(c, mode)
      [] name = "BVC" -> BVC(c, mode)
      [] name = "BVS" -> BVS(c, mode)
      [] name = "JMP" -> JMP(c, mode)
      [] name = "JSR" -> JSR(c, mode)
      [] name = "RTS" -> RTS(c, mode)
      [] name = "CLC" -> CLC(c, mode)
      [] name = "SEC" -> SEC(c, mode)
      [] name = "CLV" -> CLV(c, mode)
      [] name = "SEI" -> SEI(c, mode)
      [] name = "CLI" -> CLI(c, mode)
      [] name = "NOP" -> NOP(c, mode)
      [] name = "BRK" -> BRK(c, mode)

\* const maxSteps = 10000 in run()
maxSteps == 10000

\* dispatch with one more cycle for a branch that is taken.
dispatchTakenBranch(c, opcode) ==
    LET instruction == instructions[opcode]
        c2 == execute(c, instruction.name, instruction.mode)
        taken == instruction.mode = "relative" /\ c2.PC # c.PC + 1
    IN  [c |-> [c2 EXCEPT !.cycles = @ + instruction.cycles
                                       + (IF taken THEN 1 ELSE 0)],
         ret |-> TRUE]

\* instructions[opcode] executed on c, the CPU after the opcode fetch
dispatch(c, opcode) ==
    LET instruction == instructions[opcode]
        c2 == execute(c, instruction.name, instruction.mode)
    IN  [c |-> [c2 EXCEPT !.cycles = @ + instruction.cycles], ret |-> TRUE]

\* An unknown opcode skipped as a two-cycle instruction.
unknownOpcodeSkipped(c, opcode) ==
    [c |-> [c EXCEPT !.cycles = @ + 2], ret |-> TRUE]

\* step(), no instruction for the opcode: log it, running = false, return
\* false
unknownOpcode(c, opcode) ==
    [c |-> [c EXCEPT !.running = FALSE], ret |-> FALSE]

\* step() without the test of this.running.
stepWhenAssembled(c) ==
    IF ~c.assembled THEN [c |-> c, ret |-> FALSE]
    ELSE LET opcode == read(c, c.PC)
             c1     == [c EXCEPT !.PC = @ + 1]
         IN  IF opcode \in DOMAIN instructions THEN dispatch(c1, opcode)
             ELSE unknownOpcode(c1, opcode)

\* step(): the CPU after the call and the value returned.
step(c) ==
    IF ~c.running \/ ~c.assembled THEN [c |-> c, ret |-> FALSE]
    ELSE LET opcode == read(c, c.PC)
             c1     == [c EXCEPT !.PC = @ + 1]
         IN  IF opcode \in DOMAIN instructions THEN dispatch(c1, opcode)
             ELSE unknownOpcode(c1, opcode)

\* run(), entry: this.running = true; let stepCount = 0.
runEnter(c) == [c EXCEPT !.running = TRUE]

\* run(), the loop condition: this.running && stepCount < maxSteps.
runContinues(c, stepCount) == c.running /\ stepCount < maxSteps

\* run() without the statement that forces running = false at the limit.
runLeaveAsIs(c, stepCount) == c

\* run(), after the loop: at the step limit, force running = false.
runLeave(c, stepCount) ==
    IF stepCount >= maxSteps THEN [c EXCEPT !.running = FALSE] ELSE c

-----------------------------------------------------------------------------
(* JavaScript string operations, on sequences of one-character strings.    *)

WhiteSpace == {" ", "\t"}

trimStart(s) ==
    IF \A i \in 1..Len(s) : s[i] \in WhiteSpace THEN <<>>
    ELSE SubSeq(s, CHOOSE i \in 1..Len(s) :
                      s[i] \notin WhiteSpace /\ \A j \in 1..(i - 1) : s[j] \in WhiteSpace,
                Len(s))

trimEnd(s) ==
    IF \A i \in 1..Len(s) : s[i] \in WhiteSpace THEN <<>>
    ELSE SubSeq(s, 1, CHOOSE i \in 1..Len(s) :
                         s[i] \notin WhiteSpace
                         /\ \A j \in (i + 1)..Len(s) : s[j] \in WhiteSpace)

\* s.trim()
trim(s) == trimEnd(trimStart(s))

\* s.startsWith(p)
startsWith(s, p) == Len(s) >= Len(p) /\ SubSeq(s, 1, Len(p)) = p

\* s.endsWith(p)
endsWith(s, p) ==
    Len(s) >= Len(p) /\ SubSeq(s, Len(s) - Len(p) + 1, Len(s)) = p

\* s.indexOf(ch), 0-based, -1 when ch does not occur
indexOf(s, ch) ==
    IF \E i \in 1..Len(s) : s[i] = ch
    THEN (CHOOSE i \in 1..Len(s) : s[i] = ch /\ \A j \in 1..(i - 1) : s[j] # ch) - 1
    ELSE -1

\* s.substring(from, to) for 0 <= from <= to <= s.length
substring(s, from, to) == SubSeq(s, from + 1, to)

\* the string of a character sequence (an object key, a mnemonic)
RECURSIVE str(_)
str(s) == IF s = <<>> THEN "" ELSE Head(s) \o str(Tail(s))

LowerCase == <<"a", "b", "c", "d", "e", "f", "g", "h", "i", "j", "k", "l", "m",
               "n", "o", "p", "q", "r", "s", "t", "u", "v", "w", "x", "y", "z">>

UpperCase == <<"A", "B", "C", "D", "E", "F", "G", "H", "I", "J", "K", "L", "M",
               "N", "O", "P", "Q", "R", "S", "T", "U", "V", "W", "X", "Y", "Z">>

\* s.toUpperCase()
toUpperCase(s) ==
    [i \in 1..Len(s) |->
        IF \E k \in 1..26 : LowerCase[k] = s[i]
        THEN UpperCase[CHOOSE k \in 1..26 : LowerCase[k] = s[i]]
        ELSE s[i]]

\* s.split(/\s+/) of a string that neither starts nor ends with white space
\* (every line parseLine splits has been trimmed): the maximal runs of
\* characters that are not white space.
RECURSIVE splitWhiteSpace(_)
splitWhiteSpace(s) ==
    IF s = <<>> THEN <<>>
    ELSE LET stop == IF \E i \in 1..Len(s) : s[i] \in WhiteSpace
                     THEN CHOOSE i \in 1..Len(s) :
                            s[i] \in WhiteSpace /\ \A j \in 1..(i - 1) : s[j] \notin WhiteSpace
                     ELSE Len(s) + 1
         IN  With(stop, LAMBDA k :
                <<SubSeq(s, 1, k - 1)>>
                    \o With(trimStart(SubSeq(s, k, Len(s))),
                            LAMBDA rest : splitWhiteSpace(rest)))

\* parts.join(' ')
RECURSIVE join(_)
join(parts) ==
    IF parts = <<>> THEN <<>>
    ELSE IF Len(parts) = 1 THEN parts[1]
    ELSE parts[1] \o <<" ">> \o join(Tail(parts))

HexDigits == <<"0", "1", "2", "3", "4", "5", "6", "7", "8", "9",
               "A", "B", "C", "D", "E", "F">>

\* the value of a hexadecimal digit, -1 for any other character
hexValue(ch) ==
    LET u == toUpperCase(<<ch>>)[1]
    IN  IF \E k \in 1..16 : HexDigits[k] = u
        THEN (CHOOSE k \in 1..16 : HexDigits[k] = u) - 1
        ELSE -1

RECURSIVE hexPrefix(_, _, _)
hexPrefix(s, acc, any) ==
    IF s # <<>> /\ hexValue(Head(s)) >= 0
    THEN hexPrefix(Tail(s), acc * 16 + hexValue(Head(s)), TRUE)
    ELSE IF any THEN acc ELSE NaN

\* parseInt(s, 16): leading white space, a sign and a 0x prefix are skipped,
\* then the longest run of hex digits is read; NaN when there is none.
parseInt16(s) ==
    LET t  == trimStart(s)
        neg == t # <<>> /\ Head(t) = "-"
        u  == IF t # <<>> /\ Head(t) \in {"-", "+"} THEN Tail(t) ELSE t
        w  == IF startsWith(u, <<"0", "x">>) \/ startsWith(u, <<"0", "X">>)
              THEN SubSeq(u, 3, Len(u)) ELSE u
        n  == hexPrefix(w, 0, FALSE)
    IN  IF n = NaN THEN NaN ELSE IF neg THEN -n ELSE n

-----------------------------------------------------------------------------
(* Assembler.  constructor: the opcode table.                              *)
OpcodeTable ==
    <<
        <<"LDA", "#", \hA9>>, <<"LDA", "zp", \hA5>>, <<"LDA", "abs", \hAD>>,
        <<"LDX", "#", \hA2>>, <<"LDX", "zp", \hA6>>,
        <<"LDY", "#", \hA0>>, <<"LDY", "zp", \hA4>>,
        <<"STA", "zp", \h85>>, <<"STA", "abs", \h8D>>,
        <<"STX", "zp", \h86>>, <<"STX", "abs", \h8E>>,
        <<"STY", "zp", \h84>>, <<"STY", "abs", \h8C>>,
        <<"TAX", "imp", \hAA>>,
        <<"TAY", "imp", \hA8>>,
        <<"TXA", "imp", \h8A>>,
        <<"TYA", "imp", \h98>>,
        <<"PHA", "imp", \h48>>,
        <<"PLA", "imp", \h68>>,
        <<"PHP", "imp", \h08>>,
        <<"PLP", "imp", \h28>>,
        <<"AND", "#", \h29>>, <<"AND", "zp", \h25>>, <<"AND", "abs", \h2D>>,
        <<"ORA", "#", \h09>>, <<"ORA", "zp", \h05>>, <<"ORA", "abs", \h0D>>,
        <<"EOR", "#", \h49>>, <<"EOR", "zp", \h45>>, <<"EOR", "abs", \h4D>>,
        <<"BIT", "zp", \h24>>, <<"BIT", "abs", \h2C>>,
        <<"ADC", "#", \h69>>, <<"ADC", "zp", \h65>>, <<"ADC", "abs", \h6D>>,
        <<"SBC", "#", \hE9>>, <<"SBC", "zp", \hE5>>, <<"SBC", "abs", \hED>>,
        <<"INX", "imp", \hE8>>,
        <<"INY", "imp", \hC8>>,
        <<"DEX", "imp", \hCA>>,
        <<"DEY", "imp", \h88>>,
        <<"CMP", "#", \hC9>>, <<"CMP", "zp", \hC5>>, <<"CMP", "abs", \hCD>>,
        <<"CPX", "#", \hE0>>, <<"CPX", "zp", \hE4>>,
        <<"CPY", "#", \hC0>>, <<"CPY", "zp", \hC4>>,
        <<"BEQ", "rel", \hF0>>,
        <<"BNE", "rel", \hD0>>,
        <<"BCC", "rel", \h90>>,
        <<"BCS", "rel", \hB0>>,
        <<"BMI", "rel", \h30>>,
        <<"BPL", "rel", \h10>>,
        <<"BVC", "rel", \h50>>,
        <<"BVS", "rel", \h70>>,
        <<"JMP", "abs", \h4C>>,
        <<"JSR", "abs", \h20>>,
        <<"RTS", "imp", \h60>>,
        <<"CLC", "imp", \h18>>,
        <<"SEC", "imp", \h38>>,
        <<"CLV", "imp", \hB8>>,
        <<"SEI", "imp", \h78>>,
        <<"CLI", "imp", \h58>>,
        <<"NOP", "imp", \hEA>>,
        <<"BRK", "imp", \h00>>
    >>

\* this.opcodes with an absolute form of LDX, opcode AE.
opcodesLdxAbsolute ==
    LET rows == {OpcodeTable[i] : i \in 1..Len(OpcodeTable)}
                    \cup { <<"LDX", "abs", \hAE>> }
    IN  [mnemonic \in {r[1] : r \in rows} |->
            [tag \in {r[2] : r \in {q \in rows : q[1] = mnemonic}} |->
                (CHOOSE r \in rows : r[1] = mnemonic /\ r[2] = tag)[3]]]

\* this.opcodes: mnemonic -> (addressing-mode tag -> opcode byte)
opcodes ==
    LET rows == {OpcodeTable[i] : i \in 1..Len(OpcodeTable)}
    IN  [mnemonic \in {r[1] : r \in rows} |->
            [tag \in {r[2] : r \in {q \in rows : q[1] = mnemonic}} |->
                (CHOOSE r \in rows : r[1] = mnemonic /\ r[2] = tag)[3]]]

BranchMnemonics == {"BNE", "BEQ", "BCC", "BCS", "BMI", "BPL", "BVC", "BVS"}

\* Keys every JavaScript object inherits: this.labels[key] is defined (and is
\* not a number) for them even when no such label was recorded.
ObjectPrototypeKeys ==
    {"constructor", "toString", "toLocaleString", "valueOf", "hasOwnProperty",
     "isPrototypeOf", "propertyIsEnumerable", "__proto__"}

\* this.labels[operand] !== undefined, and its value.  An inherited key
\* gives a function, which every arithmetic use below turns into NaN.

labelDefined(labs, operand) ==
    operand \in DOMAIN labs \/ operand \in ObjectPrototypeKeys

labelValue(labs, operand) ==
    IF operand \in DOMAIN labs THEN labs[operand] ELSE NaN

\* parseLine(line): null, or the mnemonic and the operand
Null == [isNull |-> TRUE, mnemonic |-> "", operand |-> <<>>]

parseLine(line0) ==
    LET commentIndex == indexOf(line0, ";")
        line == IF commentIndex # -1 THEN trim(substring(line0, 0, commentIndex))
                ELSE line0
    IN  IF line = <<>> THEN Null
        ELSE LET parts == splitWhiteSpace(line)
             IN  [isNull |-> FALSE,
                  mnemonic |-> str(toUpperCase(parts[1])),
                  operand |-> trim(join(Tail(parts)))]

\* getInstructionSize(instruction)
getInstructionSize(instruction) ==
    LET mnemonic == instruction.mnemonic
        operand  == instruction.operand
    IN  IF operand = <<>> THEN 1
        ELSE IF startsWith(operand, <<"#">>) THEN 2
        ELSE IF startsWith(operand, <<"$">>)
             THEN LET value == parseInt16(substring(operand, 1, Len(operand)))
                  IN  IF value # NaN /\ value <= \hFF THEN 2 ELSE 3
        ELSE IF mnemonic \in {"JMP", "JSR"} THEN 3
        ELSE IF mnemonic \in BranchMnemonics THEN 2
        ELSE 2

\* assembleInstruction(instruction, address): the bytes, or the error thrown
Bytes(b) == [ok |-> TRUE, bytes |-> b, error |-> ""]

Throw(e) == [ok |-> FALSE, bytes |-> <<>>, error |-> e]

\* assembleInstruction accepting a branch offset of 128.
assembleInstructionWide(instruction, address, labs) ==
    LET mnemonic == instruction.mnemonic
        operand  == instruction.operand
        has(m)   == m \in DOMAIN opcodes[mnemonic]
    IN  IF mnemonic \notin DOMAIN opcodes THEN Throw("Unknown instruction")
        ELSE IF operand = <<>>
             THEN IF ~has("imp") THEN Throw("Invalid addressing mode")
                  ELSE Bytes(<<opcodes[mnemonic]["imp"]>>)
        ELSE IF startsWith(operand, <<"#", "$">>)
             THEN LET value == parseInt16(substring(operand, 2, Len(operand)))
                  IN  IF ~has("#") THEN Throw("Immediate addressing not supported")
                      ELSE Bytes(<<opcodes[mnemonic]["#"], value>>)
        ELSE IF startsWith(operand, <<"$">>)
             THEN LET value == parseInt16(substring(operand, 1, Len(operand)))
                  IN  IF value # NaN /\ value <= \hFF /\ has("zp")
                      THEN Bytes(<<opcodes[mnemonic]["zp"], value>>)
                      ELSE IF ~has("abs") THEN Throw("Absolute addressing not supported")
                      ELSE Bytes(<<opcodes[mnemonic]["abs"], numAnd(value, \hFF),
                                   numAnd(numShr8(value), \hFF)>>)
        ELSE IF labelDefined(labs, str(operand)) /\ mnemonic \in {"JMP", "JSR"}
             THEN LET addr == labelValue(labs, str(operand))
                  IN  Bytes(<<opcodes[mnemonic]["abs"], numAnd(addr, \hFF),
                              numAnd(numShr8(addr), \hFF)>>)
        ELSE IF labelDefined(labs, str(operand)) /\ mnemonic \in BranchMnemonics
             THEN LET target == labelValue(labs, str(operand))
                      offset == IF target = NaN THEN NaN ELSE target - (address + 2)
                  IN  IF offset # NaN /\ (offset < -128 \/ offset > 128)
                      THEN Throw("Branch target too far")
                      ELSE Bytes(<<opcodes[mnemonic]["rel"], numAnd(offset, \hFF)>>)
        ELSE Throw("Invalid operand")

assembleInstruction(instruction, address, labs) ==
    LET mnemonic == instruction.mnemonic
        operand  == instruction.operand
        has(m)   == m \in DOMAIN opcodes[mnemonic]
    IN  IF mnemonic \notin DOMAIN opcodes THEN Throw("Unknown instruction")
        ELSE IF operand = <<>>
             THEN IF ~has("imp") THEN Throw("Invalid addressing mode")
                  ELSE Bytes(<<opcodes[mnemonic]["imp"]>>)
        ELSE IF startsWith(operand, <<"#", "$">>)
             THEN LET value == parseInt16(substring(operand, 2, Len(operand)))
                  IN  IF ~has("#") THEN Throw("Immediate addressing not supported")
                      ELSE Bytes(<<opcodes[mnemonic]["#"], value>>)
        ELSE IF startsWith(operand, <<"$">>)
             THEN LET value == parseInt16(substring(operand, 1, Len(operand)))
                  IN  IF value # NaN /\ value <= \hFF /\ has("zp")
                      THEN Bytes(<<opcodes[mnemonic]["zp"], value>>)
                      ELSE IF ~has("abs") THEN Throw("Absolute addressing not supported")
                      ELSE Bytes(<<opcodes[mnemonic]["abs"], numAnd(value, \hFF),
                                   numAnd(numShr8(value), \hFF)>>)
        ELSE IF labelDefined(labs, str(operand)) /\ mnemonic \in {"JMP", "JSR"}
             THEN LET addr == labelValue(labs, str(operand))
                  IN  Bytes(<<opcodes[mnemonic]["abs"], numAnd(addr, \hFF),
                              numAnd(numShr8(addr), \hFF)>>)
        ELSE IF labelDefined(labs, str(operand)) /\ mnemonic \in BranchMnemonics
             THEN LET target == labelValue(labs, str(operand))
                      offset == IF target = NaN THEN NaN ELSE target - (address + 2)
                  IN  IF offset # NaN /\ (offset < -128 \/ offset > 127)
                      THEN Throw("Branch target too far")
                      ELSE Bytes(<<opcodes[mnemonic]["rel"], numAnd(offset, \hFF)>>)
        ELSE Throw("Invalid operand")

\* assemble(source): source.split('\n').map(trim).filter(line && !startsWith(';'))
sourceLines(source) ==
    SelectSeq([i \in 1..Len(source) |-> trim(source[i])],
              LAMBDA line : line # <<>> /\ ~startsWith(line, <<";">>))

isLabelLine(line) == endsWith(line, <<":">>)

\* assemble(source), first pass over `lines` from table labs and
\* currentAddress: the table and currentAddress after the last of them.  The
\* loop is unrolled by halves, which visits the lines in the same order.
RECURSIVE firstPassLoop(_, _, _)
firstPassLoop(lines, labs, currentAddress) ==
    IF lines = <<>> THEN [labels |-> labs, currentAddress |-> currentAddress]
    ELSE IF Len(lines) = 1
    THEN With(lines[1], LAMBDA line :
            IF isLabelLine(line)
            THEN With(str(trim(SubSeq(line, 1, Len(line) - 1))), LAMBDA label :
                    [labels |-> [k \in DOMAIN labs \cup {label} |->
                                    IF k = label THEN currentAddress ELSE labs[k]],
                     currentAddress |-> currentAddress])
            ELSE With(parseLine(line), LAMBDA instruction :
                    [labels |-> labs,
                     currentAddress |->
                        IF instruction.isNull THEN currentAddress
                        ELSE currentAddress + getInstructionSize(instruction)]))
    ELSE With(firstPassLoop(SubSeq(lines, 1, Len(lines) \div 2), labs, currentAddress),
              LAMBDA first :
                firstPassLoop(SubSeq(lines, Len(lines) \div 2 + 1, Len(lines)),
                              first.labels, first.currentAddress))

\* assemble(source), first pass: the label table after the lines
firstPass(lines, labs, currentAddress) ==
    firstPassLoop(lines, labs, currentAddress).labels

\* assemble(source), second pass: the machine code, or the first error
\* thrown.  The loop is unrolled by halves, in the same order.
RECURSIVE secondPass(_, _, _)
secondPass(lines, labs, currentAddress) ==
    IF lines = <<>> THEN Bytes(<<>>)
    ELSE IF Len(lines) = 1
    THEN With(lines[1], LAMBDA line :
            IF isLabelLine(line) THEN Bytes(<<>>)
            ELSE With(parseLine(line), LAMBDA instruction :
                    IF instruction.isNull THEN Bytes(<<>>)
                    ELSE assembleInstruction(instruction, currentAddress, labs)))
    ELSE With(secondPass(SubSeq(lines, 1, Len(lines) \div 2), labs, currentAddress),
              LAMBDA first :
                IF ~first.ok THEN first
                ELSE With(secondPass(SubSeq(lines, Len(lines) \div 2 + 1, Len(lines)),
                                     labs, currentAddress + Len(first.bytes)),
                          LAMBDA rest :
                            IF ~rest.ok THEN rest
                            ELSE Bytes(first.bytes \o rest.bytes)))

\* let address = 0x0600 in assemble()
startAddress == \h0600

\* this.labels = {} without the assignment: the table of the earlier calls.
keptLabels(labs) == labs

\* this.labels = {} at the start of assemble(), whatever the table held
freshLabels(labs) == <<>>

\* assemble(source) on an Assembler whose label table is labs: the value
\* returned or the error thrown, and this.labels as the call leaves it
assembleWith(labs0, source) ==
    With(sourceLines(source), LAMBDA lines :
        With(firstPass(lines, freshLabels(labs0), startAddress), LAMBDA labs :
            With(secondPass(lines, labs, startAddress), LAMBDA r :
                [ok |-> r.ok, machineCode |-> r.bytes, startAddress |-> startAddress,
                 error |-> r.error, labels |-> labs])))

\* assemble(source) on a new Assembler, whose label table is empty
assemble(source) == assembleWith(<<>>, source)

-----------------------------------------------------------------------------
(* Source texts.                                                           *)

\* A loop that never ends.
\*     loop:
\*     JMP loop
SourceLoop ==
    << <<"l", "o", "o", "p", ":">>,
       <<"J", "M", "P", " ", "l", "o", "o", "p">> >>

\* README, Simple Calculation.
\*     LDA #$05    ; Load 5
\*     ADC #$03    ; Add 3 (result: 8)
\*     STA $0200   ; Store result (displays as [08])
\*     BRK         ; Break
SourceCalc ==
    << <<"L", "D", "A", " ", "#", "$", "0", "5", " ", " ", " ", " ", ";",
         " ", "L", "o", "a", "d", " ", "5">>,
       <<"A", "D", "C", " ", "#", "$", "0", "3", " ", " ", " ", " ", ";",
         " ", "A", "d", "d", " ", "3", " ", "(", "r", "e", "s", "u", "l",
         "t", ":", " ", "8", ")">>,
       <<"S", "T", "A", " ", "$", "0", "2", "0", "0", " ", " ", " ", ";",
         " ", "S", "t", "o", "r", "e", " ", "r", "e", "s", "u", "l", "t",
         " ", "(", "d", "i", "s", "p", "l", "a", "y", "s", " ", "a", "s",
         " ", "[", "0", "8", "]", ")">>,
       <<"B", "R", "K", " ", " ", " ", " ", " ", " ", " ", " ", " ", ";",
         " ", "B", "r", "e", "a", "k">> >>

\* A subroutine call and return.
\*     JSR sub
\*     BRK
\*     sub:
\*     LDA #$42
\*     RTS
SourceSub ==
    << <<"J", "S", "R", " ", "s", "u", "b">>,
       <<"B", "R", "K">>,
       <<"s", "u", "b", ":">>,
       <<"L", "D", "A", " ", "#", "$", "4", "2">>,
       <<"R", "T", "S">> >>

\* A store with an immediate operand, which no STA opcode encodes.
\*     LDA #$01
\*     STA #$42
SourceBad ==
    << <<"L", "D", "A", " ", "#", "$", "0", "1">>,
       <<"S", "T", "A", " ", "#", "$", "4", "2">> >>

\* A jump into the operand byte $FF, which is no opcode.
\*     LDX #$FF
\*     JMP $0601
SourceData ==
    << <<"L", "D", "X", " ", "#", "$", "F", "F">>,
       <<"J", "M", "P", " ", "$", "0", "6", "0", "1">> >>

\* A label after an absolute jump whose literal is not above $FF.
\*     JMP L
\*     JMP $10
\*     L:
\*     LDA #$01
\*     BRK
SourceSkew ==
    << <<"J", "M", "P", " ", "L">>,
       <<"J", "M", "P", " ", "$", "1", "0">>,
       <<"L", ":">>,
       <<"L", "D", "A", " ", "#", "$", "0", "1">>,
       <<"B", "R", "K">> >>

\* An immediate literal wider than a byte.
\*     LDA #$1FF
\*     BRK
SourceWide ==
    << <<"L", "D", "A", " ", "#", "$", "1", "F", "F">>,
       <<"B", "R", "K">> >>

\* The counter of the example program, a loop that branches back.
\*     LDY #$05
\*     loop:
\*     TYA
\*     ADC #$30
\*     STA $0206
\*     DEY
\*     CPY #$00
\*     BNE loop
\*     BRK
SourceCount ==
    << <<"L", "D", "Y", " ", "#", "$", "0", "5">>,
       <<"l", "o", "o", "p", ":">>,
       <<"T", "Y", "A">>,
       <<"A", "D", "C", " ", "#", "$", "3", "0">>,
       <<"S", "T", "A", " ", "$", "0", "2", "0", "6">>,
       <<"D", "E", "Y">>,
       <<"C", "P", "Y", " ", "#", "$", "0", "0">>,
       <<"B", "N", "E", " ", "l", "o", "o", "p">>,
       <<"B", "R", "K">> >>

\* The programs entered in the editor in the lifecycle specification.
Sources ==
    {SourceLoop, SourceCalc, SourceSub, SourceBad, SourceData, SourceSkew,
     SourceWide, SourceCount}

\* The lines of the programs of the assembler specification: a label, a
\* jump to it, a jump and a load with a literal not above $FF, an immediate
\* load, and BRK.
AsmLines ==
    { <<"L", ":">>,
      <<"J", "M", "P", " ", "L">>,
      <<"J", "M", "P", " ", "$", "1", "0">>,
      <<"L", "D", "A", " ", "$", "1", "0">>,
      <<"L", "D", "A", " ", "#", "$", "0", "1">>,
      <<"B", "R", "K">> }

MaxLines == 3

\* Every program of one to MaxLines of those lines.
ShortSources == UNION { [1..n -> AsmLines] : n \in 1..MaxLines }

LabelLine == <<"L", ":">>

NopLine == <<"N", "O", "P">>

StoreLine == <<"S", "T", "A", " ", "$", "0", "2", "0", "0">>

\* A branch to L on each of the eight conditions.
BranchLines ==
    { <<"B", "N", "E", " ", "L">>,
      <<"B", "E", "Q", " ", "L">>,
      <<"B", "C", "C", " ", "L">>,
      <<"B", "C", "S", " ", "L">>,
      <<"B", "M", "I", " ", "L">>,
      <<"B", "P", "L", " ", "L">>,
      <<"B", "V", "C", " ", "L">>,
      <<"B", "V", "S", " ", "L">> }

\* A backward and a forward branch over one NOP, for each condition.
BranchSources ==
    { <<LabelLine, NopLine, b, NopLine>> : b \in BranchLines }
        \cup { <<b, NopLine, LabelLine, NopLine>> : b \in BranchLines }

\* k bytes of code: STA $0200 (3 bytes) k \div 3 times, then NOP (1 byte).
padding(k) ==
    [i \in 1..((k \div 3) + (k % 3)) |-> IF i <= k \div 3 THEN StoreLine ELSE NopLine]

\* The distances, in bytes of code between a branch and its label, around
\* the ends of the range of a relative offset.
PadBytes == {0, 1, 125, 126, 127, 128, 129}

\* A branch with k bytes of code between it and its label, on either side.
PaddedSources ==
    { <<b>> \o padding(k) \o <<LabelLine>> : b \in BranchLines, k \in PadBytes }
        \cup { <<LabelLine>> \o padding(k) \o <<b>> : b \in BranchLines, k \in PadBytes }

\* Mnemonics with both a zero-page and an absolute form, with a zero-page
\* form only, with an absolute form only, and with neither.
DollarMnemonics == { <<"L", "D", "A">>, <<"S", "T", "A">>, <<"L", "D", "X">>, <<"J", "M", "P">>, <<"I", "N", "X">> }

DollarOperands ==
    { <<"$", "0", "0">>,
      <<"$", "1", "0">>,
      <<"$", "F", "F">>,
      <<"$", "1", "0", "0">>,
      <<"$", "1", "2", "3", "4">>,
      <<"$", "F", "F", "F", "F">>,
      <<"$", "1", "2", "3", "4", "5">> }

\* One instruction with a `$` operand, alone and after another instruction.
DollarSources ==
    { <<m \o <<" ">> \o o>> : m \in DollarMnemonics, o \in DollarOperands }
        \cup { <<StoreLine, m \o <<" ">> \o o>> : m \in DollarMnemonics, o \in DollarOperands }

\* Lines with other operand forms, unknown mnemonics, identifiers that are
\* and are not labels, and comments.
OddLines ==
    { <<"L", "D", "A", " ", "#", "$", "1", "F", "F">>,
      <<"L", "D", "A", " ", "#", "$", "4", "2">>,
      <<"S", "T", "A", " ", "#", "$", "4", "2">>,
      <<"L", "D", "A">>,
      <<"I", "N", "X">>,
      <<"F", "O", "O">>,
      <<"F", "O", "O", " ", "#", "$", "0", "1">>,
      <<"J", "M", "P", " ", "n", "o", "w", "h", "e", "r", "e">>,
      <<"J", "M", "P", " ", "c", "o", "n", "s", "t", "r", "u", "c", "t", "o", "r">>,
      <<"J", "S", "R", " ", "t", "o", "S", "t", "r", "i", "n", "g">>,
      <<"B", "N", "E", " ", "n", "o", "w", "h", "e", "r", "e">>,
      <<"L", "D", "A", " ", "L">>,
      <<"J", "M", "P", " ", "L">>,
      <<"B", "N", "E", " ", "L">>,
      <<"L", ":", " ", ";", " ", "s", "t", "a", "r", "t">>,
      <<"L", "D", "A", " ", "#", "$", "0", "1", " ", ";", " ", "n", "o", "t", "e", ":">>,
      <<"L", "D", "A", " ", "#", "$", "0", "1", " ", ";", " ", "n", "o", "t", "e">> }

\* Each of those lines alone, after a definition of L and before one.
OddSources ==
    { <<l>> : l \in OddLines }
        \cup { <<LabelLine, l>> : l \in OddLines }
        \cup { <<l, NopLine, LabelLine>> : l \in OddLines }

\* Code that leaves no flag set, or Z, or N, or C, or N and V.
FlagPrefixes ==
    { <<NopLine>>,
      <<<<"L", "D", "A", " ", "#", "$", "0", "0">>>>,
      <<<<"L", "D", "A", " ", "#", "$", "8", "0">>>>,
      <<<<"S", "E", "C">>>>,
      <<<<"L", "D", "A", " ", "#", "$", "7", "F">>, <<"A", "D", "C", " ", "#", "$", "7", "F">>>> }

\* The two hexadecimal digits of a byte.
hex2(v) == <<HexDigits[(v \div 16) + 1], HexDigits[(v % 16) + 1]>>

\* The bytes BIT tests and the accumulators it tests them with.
BitOperands == {\h00, \h01, \h40, \h80, \hC0, \hFF}

BitAccumulators == {\h00, \h01, \hC0, \hFF}

\* A byte stored in memory and tested by BIT, zero page and absolute, with
\* the carry clear or set beforehand.
\*     SEC            (or NOP)
\*     LDA #$vv
\*     STA $10        (or $0210)
\*     LDA #$aa
\*     BIT $10        (or $0210)
\*     BRK
BitSources ==
    { <<first,
        <<"L", "D", "A", " ", "#", "$">> \o hex2(v),
        <<"S", "T", "A", " ", "$">> \o at,
        <<"L", "D", "A", " ", "#", "$">> \o hex2(a),
        <<"B", "I", "T", " ", "$">> \o at,
        <<"B", "R", "K">> >> :
          first \in {NopLine, <<"S", "E", "C">>},
          v \in BitOperands, a \in BitAccumulators,
          at \in { <<"1", "0">>, <<"0", "2", "1", "0">> } }

\* A branch back to a BRK that a jump skipped, and a branch forward over a
\* NOP, on each condition after each of those prefixes; and the BIT
\* programs.
RunSources ==
    { <<<<"J", "M", "P", " ", "S">>, LabelLine, <<"B", "R", "K">>, <<"S", ":">>>> \o f \o <<b, NopLine>> :
          f \in FlagPrefixes, b \in BranchLines }
        \cup { f \o <<b, NopLine, LabelLine, NopLine>> :
                  f \in FlagPrefixes, b \in BranchLines }
        \cup BitSources

\* One line for each entry of the assembler's opcode table: the mnemonic
\* alone, with `#$10`, with `$10`, with `$1234`, or with the label L.
TableLines ==
    { <<"L", "D", "A", " ", "#", "$", "1", "0">>,
      <<"L", "D", "A", " ", "$", "1", "0">>,
      <<"L", "D", "A", " ", "$", "1", "2", "3", "4">>,
      <<"L", "D", "X", " ", "#", "$", "1", "0">>,
      <<"L", "D", "X", " ", "$", "1", "0">>,
      <<"L", "D", "Y", " ", "#", "$", "1", "0">>,
      <<"L", "D", "Y", " ", "$", "1", "0">>,
      <<"S", "T", "A", " ", "$", "1", "0">>,
      <<"S", "T", "A", " ", "$", "1", "2", "3", "4">>,
      <<"S", "T", "X", " ", "$", "1", "0">>,
      <<"S", "T", "X", " ", "$", "1", "2", "3", "4">>,
      <<"S", "T", "Y", " ", "$", "1", "0">>,
      <<"S", "T", "Y", " ", "$", "1", "2", "3", "4">>,
      <<"T", "A", "X">>,
      <<"T", "A", "Y">>,
      <<"T", "X", "A">>,
      <<"T", "Y", "A">>,
      <<"P", "H", "A">>,
      <<"P", "L", "A">>,
      <<"P", "H", "P">>,
      <<"P", "L", "P">>,
      <<"A", "N", "D", " ", "#", "$", "1", "0">>,
      <<"A", "N", "D", " ", "$", "1", "0">>,
      <<"A", "N", "D", " ", "$", "1", "2", "3", "4">>,
      <<"O", "R", "A", " ", "#", "$", "1", "0">>,
      <<"O", "R", "A", " ", "$", "1", "0">>,
      <<"O", "R", "A", " ", "$", "1", "2", "3", "4">>,
      <<"E", "O", "R", " ", "#", "$", "1", "0">>,
      <<"E", "O", "R", " ", "$", "1", "0">>,
      <<"E", "O", "R", " ", "$", "1", "2", "3", "4">>,
      <<"B", "I", "T", " ", "$", "1", "0">>,
      <<"B", "I", "T", " ", "$", "1", "2", "3", "4">>,
      <<"A", "D", "C", " ", "#", "$", "1", "0">>,
      <<"A", "D", "C", " ", "$", "1", "0">>,
      <<"A", "D", "C", " ", "$", "1", "2", "3", "4">>,
      <<"S", "B", "C", " ", "#", "$", "1", "0">>,
      <<"S", "B", "C", " ", "$", "1", "0">>,
      <<"S", "B", "C", " ", "$", "1", "2", "3", "4">>,
      <<"I", "N", "X">>,
      <<"I", "N", "Y">>,
      <<"D", "E", "X">>,
      <<"D", "E", "Y">>,
      <<"C", "M", "P", " ", "#", "$", "1", "0">>,
      <<"C", "M", "P", " ", "$", "1", "0">>,
      <<"C", "M", "P", " ", "$", "1", "2", "3", "4">>,
      <<"C", "P", "X", " ", "#", "$", "1", "0">>,
      <<"C", "P", "X", " ", "$", "1", "0">>,
      <<"C", "P", "Y", " ", "#", "$", "1", "0">>,
      <<"C", "P", "Y", " ", "$", "1", "0">>,
      <<"B", "E", "Q", " ", "L">>,
      <<"B", "N", "E", " ", "L">>,
      <<"B", "C", "C", " ", "L">>,
      <<"B", "C", "S", " ", "L">>,
      <<"B", "M", "I", " ", "L">>,
      <<"B", "P", "L", " ", "L">>,
      <<"B", "V", "C", " ", "L">>,
      <<"B", "V", "S", " ", "L">>,
      <<"J", "M", "P", " ", "$", "1", "2", "3", "4">>,
      <<"J", "S", "R", " ", "$", "1", "2", "3", "4">>,
      <<"R", "T", "S">>,
      <<"C", "L", "C">>,
      <<"S", "E", "C">>,
      <<"C", "L", "V">>,
      <<"S", "E", "I">>,
      <<"C", "L", "I">>,
      <<"N", "O", "P">>,
      <<"B", "R", "K">> }

\* Each of those lines after the label it may name.
TableSources == { <<LabelLine, line>> : line \in TableLines }

\* The programs of the assembler specification.
AsmSources ==
    ShortSources \cup BranchSources \cup PaddedSources \cup DollarSources
        \cup OddSources \cup TableSources

-----------------------------------------------------------------------------
(* EmulatorApp and the calls made on the CPU.                              *)

\* EmulatorApp.assemble, the load loop: cpu.write(startAddress + i, code[i])
\* (unrolled by halves, in the same order)
RECURSIVE loadBytes(_, _, _)
loadBytes(mem, address, code) ==
    IF code = <<>> THEN mem
    ELSE IF Len(code) = 1 THEN memWrite(mem, address, code[1])
    ELSE With(loadBytes(mem, address, SubSeq(code, 1, Len(code) \div 2)),
              LAMBDA mem1 :
                loadBytes(mem1, address + Len(code) \div 2,
                          SubSeq(code, Len(code) \div 2 + 1, Len(code))))

\* EmulatorApp.assemble with memory.fill(0) moved before the call of
\* assembler.assemble.
loadResultClearFirst(c, result) ==
    IF ~result.ok THEN [c EXCEPT !.memory = ZeroMemory]
    ELSE [c EXCEPT !.memory = loadBytes(ZeroMemory, result.startAddress,
                                        result.machineCode),
                   !.PC = result.startAddress,
                   !.assembled = TRUE]

\* EmulatorApp.assemble, on the CPU: nothing when assemble threw; otherwise
\* memory.fill(0), the load loop, PC = startAddress, assembled = true.
loadResult(c, result) ==
    IF ~result.ok THEN c
    ELSE [c EXCEPT !.memory = loadBytes(ZeroMemory, result.startAddress,
                                        result.machineCode),
                   !.PC = result.startAddress,
                   !.assembled = TRUE]

\* reset() without this.assembled = false.
resetKeepAssembled(c) == [resetState EXCEPT !.assembled = c.assembled]

\* reset() without the allocation of a new memory.
resetKeepMemory(c) == [resetState EXCEPT !.memory = c.memory]

\* CPU6502.reset()
reset(c) == resetState

\* No run() call is in progress.
Idle == [pc |-> "idle", stepCount |-> 0, pre |-> resetState]

NoResult ==
    [ok |-> FALSE, machineCode |-> <<>>, startAddress |-> 0, error |-> "",
     labels |-> <<>>]

\* The record of the construction: no call made, nothing assembled yet.
Constructed(via, pre) ==
    [op |-> "new", via |-> via, ret |-> TRUE, steps |-> 0, pre |-> pre,
     src |-> <<>>, out |-> NoResult]

\* The record of a call: its name, its caller, the value returned, the
\* instructions run() executed, and the CPU as the call found it; with the
\* text last given to assemble and what assemble made of it.
Call(op, via, ret, steps, pre) ==
    [op |-> op, via |-> via, ret |-> ret, steps |-> steps, pre |-> pre,
     src |-> last.src, out |-> last.out]

\* The number of step and run calls made between two resets.
MaxCalls == 2

Init ==
    /\ cpu = resetState
    /\ labels = <<>>
    /\ frame = Idle
    /\ last = Constructed("app", resetState)
    /\ calls = 0

\* assemble(source) for each source of the model, computed once
assembleOf == [source \in Sources |-> assemble(source)]

\* EmulatorApp.assemble() with `source` in the editor, where
\* assembler.assemble returns or throws as in `outcome`
assembleAndLoad(source, outcome) ==
    /\ frame.pc = "idle"
    /\ \E result \in {outcome} :
           /\ cpu' = loadResult(cpu, result)
           /\ labels' = result.labels
           /\ last' = [Call("assemble", "app", result.ok, 0, cpu)
                          EXCEPT !.src = source, !.out = result]
    /\ UNCHANGED <<frame, calls>>

AppAssemble(source) == assembleAndLoad(source, assembleOf[source])

\* cpu.step(), called directly
CpuStep ==
    /\ frame.pc = "idle"
    /\ calls < MaxCalls
    /\ calls' = calls + 1
    /\ \E r \in {step(cpu)} :
           /\ cpu' = r.c
           /\ last' = Call("step", "cpu", r.ret, 0, cpu)
    /\ UNCHANGED <<labels, frame>>

\* EmulatorApp.step(): refused unless assembled, otherwise cpu.step()
AppStep ==
    /\ frame.pc = "idle"
    /\ calls < MaxCalls
    /\ calls' = calls + 1
    /\ IF ~cpu.assembled
       THEN /\ last' = Call("step refused", "app", FALSE, 0, cpu)
            /\ UNCHANGED cpu
       ELSE \E r \in {step(cpu)} :
                /\ cpu' = r.c
                /\ last' = Call("step", "app", r.ret, 0, cpu)
    /\ UNCHANGED <<labels, frame>>

\* cpu.run(), called directly: entry
CpuRun ==
    /\ frame.pc = "idle"
    /\ calls < MaxCalls
    /\ calls' = calls + 1
    /\ cpu' = runEnter(cpu)
    /\ frame' = [pc |-> "loop", stepCount |-> 0, pre |-> cpu]
    /\ last' = Call("run entered", "cpu", TRUE, 0, cpu)
    /\ UNCHANGED labels

\* EmulatorApp.run(): refused unless assembled, otherwise cpu.run()
AppRun ==
    /\ frame.pc = "idle"
    /\ calls < MaxCalls
    /\ calls' = calls + 1
    /\ IF ~cpu.assembled
       THEN /\ last' = Call("run refused", "app", FALSE, 0, cpu)
            /\ UNCHANGED <<cpu, frame>>
       ELSE /\ cpu' = runEnter(cpu)
            /\ frame' = [pc |-> "loop", stepCount |-> 0, pre |-> cpu]
            /\ last' = Call("run entered", "app", TRUE, 0, cpu)
    /\ UNCHANGED labels

\* run(), one iteration of the loop: if (!this.step()) break; stepCount++
RunStep ==
    /\ frame.pc = "loop"
    /\ runContinues(cpu, frame.stepCount)
    /\ \E r \in {step(cpu)} :
           /\ cpu' = r.c
           /\ last' = Call("step", "run", r.ret, frame.stepCount, cpu)
           /\ frame' = IF r.ret
                       THEN [frame EXCEPT !.stepCount = @ + 1]
                       ELSE [frame EXCEPT !.pc = "break"]
    /\ UNCHANGED <<labels, calls>>

\* run(), after the loop, and the return
RunExit ==
    /\ \/ frame.pc = "break"
       \/ frame.pc = "loop" /\ ~runContinues(cpu, frame.stepCount)
    /\ cpu' = runLeave(cpu, frame.stepCount)
    /\ last' = Call("run", "cpu", TRUE, frame.stepCount, frame.pre)
    /\ frame' = Idle
    /\ UNCHANGED <<labels, calls>>

\* cpu.reset(), called directly
CpuReset ==
    /\ frame.pc = "idle"
    /\ cpu' = reset(cpu)
    /\ last' = Call("reset", "cpu", TRUE, 0, cpu)
    /\ calls' = 0
    /\ UNCHANGED <<labels, frame>>

\* EmulatorApp.reset()
AppReset ==
    /\ frame.pc = "idle"
    /\ cpu' = reset(cpu)
    /\ last' = Call("reset", "app", TRUE, 0, cpu)
    /\ calls' = 0
    /\ UNCHANGED <<labels, frame>>

Next ==
    \/ \E source \in Sources : AppAssemble(source)
    \/ AppRun
    \/ AppStep
    \/ AppReset
    \/ CpuRun
    \/ CpuStep
    \/ CpuReset
    \/ RunStep
    \/ RunExit

Spec == Init /\ [][Next]_vars

-----------------------------------------------------------------------------
(* The assembler alone: Assemble pressed once, in a page just loaded, on   *)
(* each program of AsmSources.                                             *)

AsmAssemble(source) == last.op = "new" /\ assembleAndLoad(source, assemble(source))

AsmNext == \E source \in AsmSources : AsmAssemble(source)

AsmSpec == Init /\ [][AsmNext]_vars

-----------------------------------------------------------------------------
(* Assemble and Run: each program of RunSources assembled in a page just   *)
(* loaded, then run.                                                       *)

RunNext ==
    \/ \E source \in RunSources : AsmAssemble(source)
    \/ AppRun
    \/ RunStep
    \/ RunExit

RunSpec == Init /\ [][RunNext]_vars

-----------------------------------------------------------------------------
(* The CPU alone: step() from every opcode byte.  Any byte can stand at PC *)
(* (operand bytes are arbitrary and JMP reaches them), run() on a CPU that *)
(* was never assembled leaves running true, and assembling afterwards sets *)
(* assembled, so all four combinations of the two flags occur.             *)

OpcodeBytes   == 0..255
OperandLows   == {0, 16, 128, 255}
OperandHighs  == {0, 2}
Accumulators  == {0, 80, 255}
IndexValues   == {0, 128, 255}
StatusValues  == {32, 227}
ProgramStarts == {1536, 65535}

\* A CPU whose memory holds one instruction at PC and, in the two bytes a
\* pull reads from the stack page, the value of the low operand byte; Y
\* mirrors X.
cpuAt(pc, opcode, low, high, a, x, p, running, assembled) ==
    [resetState EXCEPT
        !.A = a, !.X = x, !.Y = 255 - x, !.P = p, !.PC = pc,
        !.memory = memWrite(memWrite(memWrite(memWrite(memWrite(ZeroMemory,
                        \h0100, low), \h0101, low), pc, opcode),
                        pc + 1, low), pc + 2, high),
        !.running = running,
        !.assembled = assembled]

CpuInit ==
    /\ \E pc \in ProgramStarts, opcode \in OpcodeBytes,
          low \in OperandLows, high \in OperandHighs,
          a \in Accumulators, x \in IndexValues, p \in StatusValues,
          running \in BOOLEAN, assembled \in BOOLEAN :
           cpu = cpuAt(pc, opcode, low, high, a, x, p, running, assembled)
    /\ labels = <<>>
    /\ frame = Idle
    /\ last = Constructed("cpu", cpu)
    /\ calls = 0

CpuNext == CpuStep

CpuSpec == CpuInit /\ [][CpuNext]_vars

-----------------------------------------------------------------------------
(* The adder: step() on ADC, SBC, CMP, CPX and CPY immediate from every    *)
(* register value, operand and carry.                                      *)

AluOpcodes == {\h69, \hE9, \hC9, \hE0, \hC0}

Bytes8 == 0..255

AluInit ==
    /\ \E opcode \in AluOpcodes, a \in Bytes8, operand \in Bytes8, p \in {32, 33} :
           cpu = cpuAt(1536, opcode, operand, 0, a, a, p, TRUE, TRUE)
    /\ labels = <<>>
    /\ frame = Idle
    /\ last = Constructed("cpu", cpu)
    /\ calls = 0

AluNext == CpuStep

AluSpec == AluInit /\ [][AluNext]_vars

-----------------------------------------------------------------------------
(* The assembler called again: programs assembled one after another on    *)
(* the same Assembler, each call starting from the label table the call   *)
(* before it left.                                                         *)

\* Programs that define a label, and programs that only refer to it.
AgainSources ==
    { <<LabelLine, <<"L", "D", "A", " ", "#", "$", "0", "1">>>>,
      <<<<"J", "M", "P", " ", "L">>>>,
      <<LabelLine, <<"J", "M", "P", " ", "L">>>>,
      <<<<"L", "D", "A", " ", "$", "1", "0">>, LabelLine, <<"J", "M", "P", " ", "L">>>>,
      <<<<"B", "N", "E", " ", "L">>>>,
      <<LabelLine, <<"B", "N", "E", " ", "L">>>>,
      <<<<"B", "R", "K">>>>,
      <<<<"J", "M", "P", " ", "$", "1", "0">>>>,
      SourceLoop,
      <<<<"J", "M", "P", " ", "l", "o", "o", "p">>>>,
      SourceSub,
      <<<<"J", "S", "R", " ", "s", "u", "b">>>>,
      <<NopLine>>,
      <<LabelLine, StoreLine>> }

\* EmulatorApp.assemble() with `source` in the editor, on the Assembler as
\* the calls before left it
AsmAgain(source) ==
    /\ frame.pc = "idle"
    /\ calls < MaxCalls
    /\ calls' = calls + 1
    /\ \E result \in {assembleWith(labels, source)} :
           /\ cpu' = loadResult(cpu, result)
           /\ labels' = result.labels
           /\ last' = [Call("assemble", "app", result.ok, 0, cpu)
                          EXCEPT !.src = source, !.out = result]
    /\ UNCHANGED frame

AgainNext == \E source \in AgainSources : AsmAgain(source)

AgainSpec == Init /\ [][AgainNext]_vars

-----------------------------------------------------------------------------
(* The stack: run() from a CPU whose stack pointer is anywhere in the      *)
(* page (pulls move it up from 0xFF, pushes down), about to execute a      *)
(* subroutine call and return or a push and pull.  The code stands where   *)
(* a program's stores and jumps can put it, the end of memory included.    *)

StackPointers == 0..255

StackStarts == {\h0600, \hFFFD, \hFFFE, \hFFFF}

Subroutines == {\h0300, \h01FE}

\* P after reset, with N, V, Z and C set, and with Break set as well (after
\* a BRK).
StackStatus == {\h20, \hE3, \hF3}

RECURSIVE place(_, _, _)

\* memory[(address + i) & 0xFFFF] = code[i], byte by byte
place(mem, address, code) ==
    IF code = <<>> THEN mem
    ELSE place(memWrite(mem, address, Head(code)), address + 1, Tail(code))

\* `JSR sub` with `sub: RTS`, `PHA / PLA` and `PHP / PLP`, as bytes
StackPrograms ==
    { [code |-> <<\h20, sub % 256, sub \div 256>>, sub |-> sub, body |-> <<\h60>>]
        : sub \in Subroutines }
    \cup { [code |-> <<\h48, \h68>>, sub |-> 0, body |-> <<>>],
           [code |-> <<\h08, \h28>>, sub |-> 0, body |-> <<>>] }

StackInit ==
    /\ \E pc \in StackStarts, program \in StackPrograms, sp \in StackPointers,
          a \in Accumulators, p \in StackStatus :
           cpu = [resetState EXCEPT
                     !.A = a, !.P = p, !.SP = sp, !.PC = pc,
                     !.memory = place(place(ZeroMemory, program.sub, program.body),
                                      pc, program.code),
                     !.assembled = TRUE]
    /\ labels = <<>>
    /\ frame = Idle
    /\ last = Constructed("cpu", cpu)
    /\ calls = 0

StackNext == CpuRun \/ RunStep \/ RunExit

StackSpec == StackInit /\ [][StackNext]_vars

-----------------------------------------------------------------------------
(* Properties of the lifecycle: reset, assemble, step and run.             *)

\* The opcode byte a step() call found at PC.
fetched(c) == read(c, c.PC)

\* C1: run() executes at most 10 000 instructions, and when it returns at
\* the step limit running is false and assembled is still true.
RunStopsAtLimit ==
    /\ frame.stepCount <= 10000
    /\ last.op = "run" => last.steps <= 10000
    /\ (last.op = "run" /\ last.steps >= 10000) => (~cpu.running /\ cpu.assembled)

\* A run() call has returned at the step limit.
RunStopsAtLimitWitness ==
    last.op = "run" /\ last.steps = 10000 /\ frame.pc = "idle"

\* C2: with running and assembled true and the opcode at PC that of an
\* instruction other than a jump, a subroutine call or return, or a branch,
\* step() returns true, adds the instruction's cycles and leaves PC at the
\* old PC plus 1 (implied), 2 (immediate, zero page) or 3 (absolute).
StepAdvancesPC ==
    (/\ last.op = "step"
     /\ last.pre.running
     /\ last.pre.assembled
     /\ fetched(last.pre) \in DOMAIN instructions
     /\ instructions[fetched(last.pre)].name
            \notin {"JMP", "JSR", "RTS"} \cup BranchMnemonics)
    => LET instruction == instructions[fetched(last.pre)]
       IN  /\ last.ret
           /\ cpu.PC = last.pre.PC
                        + (CASE instruction.mode = "implied" -> 1
                             [] instruction.mode = "immediate" -> 2
                             [] instruction.mode = "zeropage" -> 2
                             [] instruction.mode = "absolute" -> 3)
           /\ cpu.cycles = last.pre.cycles + instruction.cycles

\* step() has executed STA absolute (opcode 8D).
StepAdvancesPCWitness ==
    /\ last.op = "step"
    /\ last.ret
    /\ fetched(last.pre) = 141
    /\ cpu.PC = last.pre.PC + 3

\* C3: step() called while running is false or assembled is false returns
\* false and leaves the whole CPU as it was.
StepRefusedChangesNothing ==
    (last.op = "step" /\ (~last.pre.running \/ ~last.pre.assembled))
    => (~last.ret /\ cpu = last.pre)

\* step() was called on an assembled CPU halted by BRK.
StepRefusedWitness ==
    /\ last.op = "step"
    /\ ~last.ret
    /\ last.pre.assembled
    /\ ~last.pre.running
    /\ getFlag(last.pre, FLAG_BREAK)
    /\ last.pre.cycles > 0

\* C4: a Step command that follows a successful Assemble executes one
\* instruction: it reports success, PC advances and cycles increase.
StepAfterAssembleExecutes ==
    [][(/\ last.op = "assemble"
        /\ last.ret
        /\ last'.op = "step"
        /\ last'.via = "app")
       => (last'.ret /\ cpu'.PC # cpu.PC /\ cpu'.cycles > cpu.cycles)]_vars

\* C5: running is false whenever no run() call is in progress.
NotRunningOutsideRun == frame.pc = "idle" => ~cpu.running

\* C6: reset() yields A = X = Y = 0, PC = 0x0600, SP = 0xFF, P = 0x20,
\* cycles = 0, running = false and assembled = false.
ResetRestoresRegisters ==
    last.op = "reset"
    => /\ cpu.A = 0 /\ cpu.X = 0 /\ cpu.Y = 0
       /\ cpu.PC = 1536 /\ cpu.SP = 255 /\ cpu.P = 32
       /\ cpu.cycles = 0
       /\ ~cpu.running
       /\ ~cpu.assembled

\* reset() was called on an assembled CPU that had executed instructions.
ResetRestoresRegistersWitness ==
    /\ last.op = "reset"
    /\ last.pre.assembled
    /\ last.pre.cycles > 0
    /\ last.pre.A # 0
    /\ last.pre.P # 32

\* C7, as claimed: every memory byte holds the same value after reset() as
\* before it.
ResetKeepsMemory ==
    last.op = "reset"
    => \A a \in DOMAIN last.pre.memory \cup DOMAIN cpu.memory :
           read(cpu, a) = read(last.pre, a)

\* C7, amended: after reset() every memory byte is 0.
ResetClearsMemory ==
    last.op = "reset"
    => /\ DOMAIN cpu.memory = {}
       /\ \A a \in DOMAIN last.pre.memory : read(cpu, a) = 0

\* reset() was called on a CPU whose memory held a program.
ResetClearsMemoryWitness ==
    /\ last.op = "reset"
    /\ read(last.pre, 1536) # 0
    /\ read(cpu, 1536) = 0

\* C8: after a successful assemble-and-load of byte vector b, memory at
\* 0x0600 + i is b[i], every other byte is 0, PC = 0x0600 and assembled.
LoadCopiesBytes ==
    (last.op = "assemble" /\ last.ret)
    => LET b == last.out.machineCode
       IN  /\ \A i \in 1..Len(b) : read(cpu, 1536 + (i - 1)) = b[i]
           /\ \A a \in DOMAIN cpu.memory : a \in 1536..(1536 + Len(b) - 1)
           /\ cpu.PC = 1536
           /\ cpu.assembled

\* C9: when assembling fails nothing is loaded: the CPU is exactly as it was
\* and no byte vector is returned.
FailedAssembleLoadsNothing ==
    (last.op = "assemble" /\ ~last.ret)
    => (cpu = last.pre /\ last.out.machineCode = <<>>)

\* Assembling failed on a CPU that held an earlier program and had run it.
FailedAssembleWitness ==
    /\ last.op = "assemble"
    /\ ~last.ret
    /\ last.out.error # ""
    /\ last.pre.assembled
    /\ last.pre.cycles > 0
    /\ read(cpu, 1536) # 0

\* The label a label line defines.
labelOf(line) == str(trim(SubSeq(line, 1, Len(line) - 1)))

\* C10: the address recorded for a label is 0x0600 plus the number of bytes
\* the second pass emits for the lines before it, whatever operands those
\* lines have.
LabelFollowsEmittedBytes ==
    (last.op = "assemble" /\ last.ret)
    => LET lines == sourceLines(last.src)
       IN  \A i \in 1..Len(lines) :
              (/\ isLabelLine(lines[i])
               /\ \A j \in (i + 1)..Len(lines) :
                      isLabelLine(lines[j]) => labelOf(lines[j]) # labelOf(lines[i]))
              => last.out.labels[labelOf(lines[i])]
                   = 1536 + Len(secondPass(SubSeq(lines, 1, i - 1),
                                           last.out.labels, 1536).bytes)

\* The number of bytes the second pass emits for the lines before line i.
emittedBefore(lines, i, labs) ==
    Len(secondPass(SubSeq(lines, 1, i - 1), labs, 1536).bytes)

\* The condition a branch mnemonic tests, on the flags of c.
conditionHolds(mnemonic, c) ==
    CASE mnemonic = "BNE" -> c.P % 4 < 2
      [] mnemonic = "BEQ" -> c.P % 4 >= 2
      [] mnemonic = "BCC" -> c.P % 2 = 0
      [] mnemonic = "BCS" -> c.P % 2 = 1
      [] mnemonic = "BPL" -> c.P % 256 < 128
      [] mnemonic = "BMI" -> c.P % 256 >= 128
      [] mnemonic = "BVC" -> c.P % 128 < 64
      [] mnemonic = "BVS" -> c.P % 128 >= 64

\* Line i of the program last assembled is a branch to a label it defines,
\* and the instruction step() has just executed is the one assembled from it.
executedBranch(i) ==
    LET lines == sourceLines(last.src)
    IN  /\ last.op = "step"
        /\ last.ret
        /\ last.out.ok
        /\ i \in 1..Len(lines)
        /\ ~isLabelLine(lines[i])
        /\ parseLine(lines[i]).mnemonic \in BranchMnemonics
        /\ str(parseLine(lines[i]).operand) \in DOMAIN last.out.labels
        /\ last.pre.PC = 1536 + emittedBefore(lines, i, last.out.labels)

\* C11: executing a branch written `Bxx L` in a successfully assembled
\* program sets PC to the address assigned to L when the condition holds,
\* whether L lies before or after the branch, and to the address of the
\* instruction following the branch when it does not.
BranchReachesLabel ==
    \A i \in 1..Len(last.src) :
        executedBranch(i)
        => LET instruction == parseLine(sourceLines(last.src)[i])
           IN  cpu.PC = IF conditionHolds(instruction.mnemonic, last.pre)
                        THEN last.out.labels[str(instruction.operand)]
                        ELSE last.pre.PC + 2

\* A branch back to an earlier label was taken.
BranchReachesLabelWitness ==
    \E i \in 1..Len(last.src) :
        /\ executedBranch(i)
        /\ conditionHolds(parseLine(sourceLines(last.src)[i]).mnemonic, last.pre)
        /\ cpu.PC < last.pre.PC
        /\ cpu.PC = last.out.labels["L"]

\* C12: every element of the byte vector a successful assemble returns is
\* an integer in 0..255.
AssembledBytesAreBytes ==
    (last.op = "assemble" /\ last.ret)
    => \A i \in 1..Len(last.out.machineCode) : last.out.machineCode[i] \in 0..255

\* Line i of the program last assembled is an instruction with a `$` operand
\* that has a value, on a mnemonic of the opcode table.
dollarLine(lines, i) ==
    LET instruction == parseLine(lines[i])
    IN  /\ ~isLabelLine(lines[i])
        /\ ~instruction.isNull
        /\ instruction.mnemonic \in DOMAIN opcodes
        /\ startsWith(instruction.operand, <<"$">>)
        /\ parseInt16(substring(instruction.operand, 1, Len(instruction.operand))) # NaN

\* C13: for a `$` operand with value v, the assembler emits the zero-page
\* opcode and v when v <= 0xFF and the mnemonic has a zero-page form, and
\* otherwise, when the mnemonic has an absolute form, the absolute opcode,
\* v mod 256 and v div 256.
DollarOperandEncoding ==
    (last.op = "assemble" /\ last.ret)
    => LET lines == sourceLines(last.src)
           code  == last.out.machineCode
       IN  \A i \in 1..Len(lines) :
              dollarLine(lines, i)
              => LET instruction == parseLine(lines[i])
                     forms == opcodes[instruction.mnemonic]
                     v   == parseInt16(substring(instruction.operand, 1,
                                                 Len(instruction.operand)))
                     at  == emittedBefore(lines, i, last.out.labels)
                     end == emittedBefore(lines, i + 1, last.out.labels)
                 IN  IF v <= 255 /\ "zp" \in DOMAIN forms
                     THEN SubSeq(code, at + 1, end) = <<forms["zp"], v>>
                     ELSE "abs" \in DOMAIN forms
                          => SubSeq(code, at + 1, end)
                               = <<forms["abs"], v % 256, v \div 256>>

\* Line i of the program last assembled is a branch to a label it defines,
\* and the lines before it assemble.
branchLine(lines, i) ==
    LET instruction == parseLine(lines[i])
    IN  /\ ~isLabelLine(lines[i])
        /\ instruction.mnemonic \in BranchMnemonics
        /\ str(instruction.operand) \in DOMAIN last.out.labels
        /\ secondPass(SubSeq(lines, 1, i - 1), last.out.labels, 1536).ok

\* The offset of the branch on line i: target - (branch address + 2).
branchOffset(lines, i) ==
    last.out.labels[str(parseLine(lines[i]).operand)]
        - (1536 + emittedBefore(lines, i, last.out.labels) + 2)

\* C14: assembling a branch to a label fails with the branch-range error and
\* returns no bytes exactly when target - (branch address + 2) is below -128
\* or above 127; otherwise it emits the branch opcode and the offset modulo
\* 256.
BranchRangeChecked ==
    last.op = "assemble"
    => LET lines == sourceLines(last.src)
       IN  \A i \in 1..Len(lines) :
              branchLine(lines, i)
              => LET offset == branchOffset(lines, i)
                     before == secondPass(SubSeq(lines, 1, i - 1), last.out.labels, 1536)
                     upTo   == secondPass(SubSeq(lines, 1, i), last.out.labels, 1536)
                     opcode == opcodes[parseLine(lines[i]).mnemonic]["rel"]
                 IN  IF offset < -128 \/ offset > 127
                     THEN /\ ~last.ret
                          /\ last.out.error = "Branch target too far"
                          /\ last.out.machineCode = <<>>
                     ELSE /\ upTo.ok
                          /\ upTo.bytes = before.bytes \o <<opcode, offset % 256>>
                          /\ last.out.error # "Branch target too far"
                                \/ \E j \in (i + 1)..Len(lines) : branchLine(lines, j)
                          /\ last.ret
                              => SubSeq(last.out.machineCode, 1, Len(upTo.bytes))
                                   = upTo.bytes

\* A forward branch with offset 128, one past the range, was refused.
BranchRangeCheckedWitness ==
    /\ last.op = "assemble"
    /\ ~last.ret
    /\ last.out.error = "Branch target too far"
    /\ last.out.machineCode = <<>>
    /\ branchLine(sourceLines(last.src), 1)
    /\ branchOffset(sourceLines(last.src), 1) = 128

\* The labels the program last assembled defines.
definedLabels(lines) ==
    {labelOf(lines[j]) : j \in {k \in 1..Len(lines) : isLabelLine(lines[k])}}

\* The instruction has a mnemonic of the opcode table and an operand of a
\* form that mnemonic supports.
encodable(instruction, defined) ==
    LET operand == instruction.operand
        forms   == DOMAIN opcodes[instruction.mnemonic]
    IN  /\ instruction.mnemonic \in DOMAIN opcodes
        /\ IF operand = <<>> THEN "imp" \in forms
           ELSE IF startsWith(operand, <<"#", "$">>) THEN "#" \in forms
           ELSE IF startsWith(operand, <<"$">>)
                THEN \/ "abs" \in forms
                     \/ /\ "zp" \in forms
                        /\ parseInt16(substring(operand, 1, Len(operand))) # NaN
                        /\ parseInt16(substring(operand, 1, Len(operand))) <= 255
           ELSE /\ str(operand) \in defined
                /\ instruction.mnemonic \in {"JMP", "JSR"} \cup BranchMnemonics

\* C15: assemble succeeds only if every instruction line has a mnemonic of
\* the opcode table, an operand form that mnemonic supports and, for an
\* identifier operand, a defined label on JMP, JSR or a branch.
OnlyEncodableAssembles ==
    (last.op = "assemble" /\ last.ret)
    => LET lines == sourceLines(last.src)
       IN  \A i \in 1..Len(lines) :
              (~isLabelLine(lines[i]) /\ ~parseLine(lines[i]).isNull)
              => encodable(parseLine(lines[i]), definedLabels(lines))

\* The text of a line with the comment removed, trimmed.
withoutComment(line) ==
    IF indexOf(line, ";") = -1 THEN trim(line)
    ELSE trim(substring(line, 0, indexOf(line, ";")))

\* C16: a line is a label definition exactly when its text with the comment
\* removed ends with a colon: the labels of the table are those of such
\* lines, so `name: ; comment` defines name and `LDA #$01 ; note:` defines
\* nothing.
LabelsDecidedWithoutComment ==
    last.op = "assemble"
    => LET lines == sourceLines(last.src)
       IN  DOMAIN last.out.labels
             = {labelOf(withoutComment(lines[i])) :
                   i \in {k \in 1..Len(lines) :
                             endsWith(withoutComment(lines[k]), <<":">>)}}

\* C17: after every executed instruction A, X, Y, SP and P are in 0..255
\* and PC is in 0..65535.
RegistersInWidth ==
    (last.op = "step" /\ last.ret)
    => /\ cpu.A \in 0..255 /\ cpu.X \in 0..255 /\ cpu.Y \in 0..255
       /\ cpu.SP \in 0..255 /\ cpu.P \in 0..255
       /\ cpu.PC \in 0..65535

\* C18: bit 5 of P is 1 in every state reached by executing instructions.
UnusedFlagStaysSet == (cpu.P \div 32) % 2 = 1

\* PLP has pulled a byte whose bit 5 is 0 and whose other bits are not all 0.
UnusedFlagStaysSetWitness ==
    /\ last.op = "step"
    /\ last.ret
    /\ fetched(last.pre) = 40
    /\ read(last.pre, 256 + ((last.pre.SP + 1) % 256)) = 16
    /\ cpu.SP = (last.pre.SP + 1) % 256

\* The value an instruction in the given mode reads, on the CPU as step()
\* found it.
operandOf(c, mode) ==
    CASE mode = "immediate" -> read(c, c.PC + 1)
      [] mode = "zeropage"  -> read(c, read(c, c.PC + 1))
      [] mode = "absolute"  -> read(c, read(c, c.PC + 1) + 256 * read(c, c.PC + 2))
      [] OTHER -> 0

\* The register an instruction stores its result in, or "" when C19 does
\* not speak of the instruction.
targetOf(name) ==
    CASE name \in {"LDA", "TXA", "TYA", "PLA", "ADC", "SBC", "AND", "ORA", "EOR"} -> "A"
      [] name \in {"LDX", "TAX", "INX", "DEX"} -> "X"
      [] name \in {"LDY", "TAY", "INY", "DEY"} -> "Y"
      [] OTHER -> ""

\* The 8-bit result of the instruction, from the CPU as step() found it.
resultOf(c, name, mode) ==
    LET v == operandOf(c, mode)
    IN  CASE name \in {"LDA", "LDX", "LDY"} -> v
          [] name \in {"TAX", "TAY"} -> c.A
          [] name = "TXA" -> c.X
          [] name = "TYA" -> c.Y
          [] name = "PLA" -> read(c, 256 + ((c.SP + 1) % 256))
          [] name = "ADC" -> (c.A + v + (c.P % 2)) % 256
          [] name = "SBC" -> (c.A - v - (1 - (c.P % 2))) % 256
          [] name = "AND" -> BitAnd(c.A, v)
          [] name = "ORA" -> BitOr(c.A, v)
          [] name = "EOR" -> BitXor(c.A, v)
          [] name = "INX" -> (c.X + 1) % 256
          [] name = "DEX" -> (c.X - 1) % 256
          [] name = "INY" -> (c.Y + 1) % 256
          [] name = "DEY" -> (c.Y - 1) % 256

\* C19: after a load, a transfer, PLA, ADC, SBC, AND, ORA, EOR or an
\* increment or decrement, the target register holds the 8-bit result, Z is 1
\* iff that value is 0 and N is 1 iff its bit 7 is 1.
ResultSetsZeroAndNegative ==
    (/\ last.op = "step"
     /\ last.ret
     /\ fetched(last.pre) \in DOMAIN instructions
     /\ targetOf(instructions[fetched(last.pre)].name) # "")
    => LET instruction == instructions[fetched(last.pre)]
           target == targetOf(instruction.name)
           stored == IF target = "A" THEN cpu.A
                     ELSE IF target = "X" THEN cpu.X ELSE cpu.Y
       IN  /\ stored = resultOf(last.pre, instruction.name, instruction.mode)
           /\ stored \in 0..255
           /\ ((cpu.P \div 2) % 2 = 1) <=> (stored = 0)
           /\ ((cpu.P \div 128) % 2 = 1) <=> (stored >= 128)

\* INX has wrapped X from 0xFF to 0x00 and set Z.
ResultSetsZeroAndNegativeWitness ==
    /\ last.op = "step"
    /\ last.ret
    /\ fetched(last.pre) = 232
    /\ last.pre.X = 255
    /\ cpu.X = 0
    /\ (cpu.P \div 2) % 2 = 1

\* C20: ADC leaves A = (A + operand + c) mod 256, C = 1 iff A + operand + c
\* is above 255, and V = 1 iff the two addends have the same sign bit and the
\* result's sign bit differs.
AdcAddsWithCarry ==
    (/\ last.op = "step"
     /\ last.ret
     /\ fetched(last.pre) \in DOMAIN instructions
     /\ instructions[fetched(last.pre)].name = "ADC")
    => LET a   == last.pre.A
           v   == operandOf(last.pre, instructions[fetched(last.pre)].mode)
           sum == a + v + (last.pre.P % 2)
       IN  /\ cpu.A = sum % 256
           /\ (cpu.P % 2 = 1) <=> (sum > 255)
           /\ ((cpu.P \div 64) % 2 = 1)
                <=> ((a >= 128) = (v >= 128) /\ (cpu.A >= 128) # (a >= 128))

\* ADC has added 0x50 and 0x50 with no carry in: signed overflow, no carry.
AdcAddsWithCarryWitness ==
    /\ last.op = "step"
    /\ last.ret
    /\ fetched(last.pre) = 105
    /\ last.pre.A = 80
    /\ operandOf(last.pre, "immediate") = 80
    /\ last.pre.P % 2 = 0
    /\ cpu.A = 160
    /\ (cpu.P \div 64) % 2 = 1
    /\ cpu.P % 2 = 0

JsrRtsReturns ==
    (/\ last.op = "step"
     /\ last.via = "run"
     /\ last.steps = 1
     /\ last.ret
     /\ fetched(frame.pre) = \h20
     /\ fetched(last.pre) = \h60)
    => /\ cpu.PC % 65536 = (frame.pre.PC + 3) % 65536
       /\ cpu.SP = frame.pre.SP

\* JSR at SP = 0x00 has pushed at 0x0100 and 0x01FF, and RTS has returned.
JsrRtsReturnsWitness ==
    /\ last.op = "step"
    /\ last.via = "run"
    /\ last.steps = 1
    /\ last.ret
    /\ fetched(frame.pre) = \h20
    /\ fetched(last.pre) = \h60
    /\ frame.pre.SP = 0
    /\ last.pre.SP = 254
    /\ cpu.SP = 0
    /\ cpu.PC = frame.pre.PC + 3

\* The bytes an executed push instruction stores, first push first; none for
\* the other instructions.
pushedBy(c, name) ==
    CASE name = "PHA" -> <<c.A>>
      [] name = "PHP" -> <<BitOr(c.P, 16)>>
      [] name = "JSR" -> <<((c.PC + 2) \div 256) % 256, (c.PC + 2) % 256>>
      [] OTHER -> <<>>

\* The number of bytes an executed pull instruction reads from the stack.
pulledBy(name) ==
    CASE name \in {"PLA", "PLP"} -> 1
      [] name = "RTS" -> 2
      [] OTHER -> 0

\* C23: every push (PHA, PHP, each byte of JSR) stores at 0x0100 + SP and
\* then moves SP down by one modulo 256, every pull (PLA, PLP, each byte of
\* RTS) first moves SP up by one modulo 256 and then reads 0x0100 + SP, no
\* push changes memory outside 0x0100..0x01FF, and PLA directly after PHA
\* leaves A and SP as they were before the PHA.
StackPushPull ==
    (/\ last.op = "step"
     /\ last.ret
     /\ fetched(last.pre) \in DOMAIN instructions)
    => LET pre    == last.pre
           name   == instructions[fetched(pre)].name
           pushed == pushedBy(pre, name)
           at(i)  == 256 + ((pre.SP - (i - 1)) % 256)
           up(i)  == 256 + ((pre.SP + i) % 256)
       IN  /\ name \in {"PHA", "PHP", "JSR"} =>
                /\ cpu.SP = (pre.SP - Len(pushed)) % 256
                /\ \A i \in 1..Len(pushed) : read(cpu, at(i)) = pushed[i]
                /\ \A x \in (DOMAIN cpu.memory \cup DOMAIN pre.memory) :
                       read(cpu, x) # read(pre, x)
                           => x \in { at(i) : i \in 1..Len(pushed) }
           /\ name \in {"PLA", "PLP", "RTS"} =>
                /\ cpu.SP = (pre.SP + pulledBy(name)) % 256
                /\ cpu.memory = pre.memory
                /\ name = "PLA" => cpu.A = read(pre, up(1))
                /\ name = "PLP" =>
                       cpu.P = BitOr(BitAnd(read(pre, up(1)), 239), 32)
                /\ name = "RTS" =>
                       cpu.PC = read(pre, up(1)) + 256 * read(pre, up(2)) + 1
           /\ (/\ last.via = "run" /\ last.steps = 1
               /\ fetched(frame.pre) = \h48 /\ name = "PLA") =>
                /\ cpu.A = frame.pre.A
                /\ cpu.SP = frame.pre.SP

\* PHA at SP = 0x00 has stored A at 0x0100 and wrapped SP to 0xFF, and PLA
\* has brought both back.
StackPushPullWitness ==
    /\ last.op = "step"
    /\ last.via = "run"
    /\ last.steps = 1
    /\ last.ret
    /\ fetched(frame.pre) = \h48
    /\ fetched(last.pre) = \h68
    /\ frame.pre.SP = 0
    /\ frame.pre.A = 80
    /\ last.pre.SP = 255
    /\ read(last.pre, \h0100) = 80
    /\ cpu.SP = 0
    /\ cpu.A = 80

\* The most recent call was a step() that executed BRK.
afterBrk ==
    /\ last.op = "step"
    /\ last.ret
    /\ fetched(last.pre) = \h00

\* C24: a step() that executes BRK leaves the Break flag (bit 4 of P) set,
\* running false and PC at the BRK's address + 1; inside run() the next thing
\* that happens is the return of run(), with the CPU as BRK left it, so the
\* bytes after the BRK are not executed by that run().
BrkEndsRun ==
    [][/\ afterBrk' =>
            /\ ~cpu'.running
            /\ (cpu'.P \div 16) % 2 = 1
            /\ cpu'.PC = last'.pre.PC + 1
       /\ (afterBrk /\ last.via = "run") =>
            /\ last'.op = "run"
            /\ cpu' = cpu]_vars

\* run() has returned from `JSR sub / BRK / sub: LDA #$42 / RTS` at the BRK,
\* with the subroutine's bytes after it.
BrkEndsRunWitness ==
    /\ last.op = "run"
    /\ last.src = SourceSub
    /\ last.steps = 4
    /\ cpu.cycles = 21
    /\ ~cpu.running
    /\ (cpu.P \div 16) % 2 = 1
    /\ cpu.PC = \h0604
    /\ read(cpu, \h0603) = \h00
    /\ read(cpu, \h0604) = \hA9
    /\ cpu.A = \h42
    /\ cpu.SP = \hFF

\* C25: with running and assembled true and a byte at PC that is no opcode of
\* the instruction table, step() returns false, sets running to false and
\* leaves cycles, A, X, Y, SP, P and the memory as they were.
UnknownOpcodeStops ==
    (/\ last.op = "step"
     /\ last.pre.running
     /\ last.pre.assembled
     /\ fetched(last.pre) \notin DOMAIN instructions)
    => /\ ~last.ret
       /\ ~cpu.running
       /\ cpu.cycles = last.pre.cycles
       /\ cpu.A = last.pre.A /\ cpu.X = last.pre.X /\ cpu.Y = last.pre.Y
       /\ cpu.SP = last.pre.SP /\ cpu.P = last.pre.P
       /\ cpu.memory = last.pre.memory

\* step() has found 0xFF at PC and stopped.
UnknownOpcodeStopsWitness ==
    /\ last.op = "step"
    /\ last.pre.running
    /\ last.pre.assembled
    /\ fetched(last.pre) = \hFF
    /\ ~last.ret
    /\ ~cpu.running
    /\ cpu.PC = last.pre.PC + 1

\* The base cycle count of an instruction.
baseCycles(name, mode) ==
    IF name \in {"PHA", "PHP"} THEN 3
    ELSE IF name \in {"PLA", "PLP"} THEN 4
    ELSE IF name \in BranchMnemonics THEN 2
    ELSE IF name = "JMP" THEN 3
    ELSE IF name \in {"JSR", "RTS"} THEN 6
    ELSE IF name = "BRK" THEN 7
    ELSE IF mode \in {"implied", "immediate"} THEN 2
    ELSE IF mode = "zeropage" THEN 3
    ELSE 4

operandLength(mode) ==
    CASE mode = "implied" -> 0
      [] mode \in {"immediate", "zeropage", "relative"} -> 1
      [] mode = "absolute" -> 2

\* The addressing mode an operand form of the assembler stands for.
modeOf(tag) ==
    CASE tag = "imp" -> "implied"
      [] tag = "#" -> "immediate"
      [] tag = "zp" -> "zeropage"
      [] tag = "abs" -> "absolute"
      [] tag = "rel" -> "relative"

\* Line i of the program is an instruction, not a label.
instructionLine(lines, i) ==
    ~isLabelLine(lines[i]) /\ ~parseLine(lines[i]).isNull

\* C27: every opcode byte of the assembler's table is in the CPU's table
\* under the same mnemonic and the mode of its operand form, and in every
\* assembled program each instruction's first byte is an opcode of its
\* mnemonic in the CPU's table, followed by as many bytes as that opcode's
\* mode has operand bytes, so that decoding finds the same boundaries.
WireFormatAgrees ==
    /\ \A mnemonic \in DOMAIN opcodes : \A tag \in DOMAIN opcodes[mnemonic] :
          LET opcode == opcodes[mnemonic][tag]
          IN  /\ opcode \in DOMAIN instructions
              /\ instructions[opcode].name = mnemonic
              /\ instructions[opcode].mode = modeOf(tag)
    /\ (last.op = "assemble" /\ last.ret)
       => LET lines == sourceLines(last.src)
              code  == last.out.machineCode
          IN  \A i \in 1..Len(lines) :
                 instructionLine(lines, i)
                 => LET at  == emittedBefore(lines, i, last.out.labels)
                        end == emittedBefore(lines, i + 1, last.out.labels)
                    IN  /\ end > at
                        /\ code[at + 1] \in DOMAIN instructions
                        /\ instructions[code[at + 1]].name
                             = parseLine(lines[i]).mnemonic
                        /\ end - at
                             = 1 + operandLength(instructions[code[at + 1]].mode)

\* `BIT $1234` has been assembled to 2C 34 12, the absolute BIT of the CPU.
WireFormatAgreesWitness ==
    /\ last.op = "assemble"
    /\ last.ret
    /\ last.src = <<LabelLine, <<"B", "I", "T", " ", "$", "1", "2", "3", "4">>>>
    /\ last.out.machineCode = <<\h2C, \h34, \h12>>
    /\ instructions[\h2C].name = "BIT"
    /\ instructions[\h2C].mode = "absolute"

\* run() has returned from the counter loop, assembled and run on a CPU with
\* the registers of reset().
counterLoopRan ==
    /\ last.op = "run"
    /\ last.src = SourceCount
    /\ last.pre = loadResult(resetState, last.out)

enteredAfterLimit ==
    /\ frame.pc # "idle"
    /\ last.src = SourceLoop
    /\ ~frame.pre.running
    /\ frame.pre.cycles = 3 * maxSteps

\* C29: a run() called after a run() that halted at the step limit, with no
\* reset between them, executes no instruction: PC, the registers, the
\* memory and cycles stay as the first run() left them.
SecondRunDoesNotResume ==
    enteredAfterLimit
    => /\ cpu.PC = frame.pre.PC
       /\ cpu.A = frame.pre.A /\ cpu.X = frame.pre.X /\ cpu.Y = frame.pre.Y
       /\ cpu.SP = frame.pre.SP /\ cpu.P = frame.pre.P
       /\ cpu.memory = frame.pre.memory
       /\ cpu.cycles = frame.pre.cycles

\* C30: an executed branch adds 2 cycles when it is not taken and 3 cycles
\* when it is taken.
TakenBranchCostsThree ==
    (/\ last.op = "step"
     /\ last.ret
     /\ fetched(last.pre) \in DOMAIN instructions
     /\ instructions[fetched(last.pre)].name \in BranchMnemonics)
    => cpu.cycles = last.pre.cycles
                      + (IF conditionHolds(instructions[fetched(last.pre)].name,
                                           last.pre)
                         THEN 3 ELSE 2)

\* The address an instruction's operand bytes name: the zero-page byte, or
\* the 16-bit address with its low byte first.
effectiveAddress(c, mode) ==
    CASE mode = "zeropage" -> read(c, c.PC + 1)
      [] mode = "absolute" -> read(c, c.PC + 1) + 256 * read(c, c.PC + 2)
      [] OTHER -> 0

\* C31: STA, STX and STY write the register to the effective address and
\* change nothing else: P, A, X, Y, SP and every other memory byte stay as
\* they were (PC and cycles advance by the instruction's length and count).
StoresWriteOnlyTarget ==
    (/\ last.op = "step"
     /\ last.ret
     /\ fetched(last.pre) \in DOMAIN instructions
     /\ instructions[fetched(last.pre)].name \in {"STA", "STX", "STY"})
    => LET pre  == last.pre
           name == instructions[fetched(pre)].name
           mode == instructions[fetched(pre)].mode
           reg  == CASE name = "STA" -> pre.A
                     [] name = "STX" -> pre.X
                     [] name = "STY" -> pre.Y
       IN  /\ cpu.memory = memWrite(pre.memory, effectiveAddress(pre, mode), reg)
           /\ read(cpu, effectiveAddress(pre, mode)) = reg
           /\ cpu.P = pre.P /\ cpu.A = pre.A /\ cpu.X = pre.X
           /\ cpu.Y = pre.Y /\ cpu.SP = pre.SP
           /\ cpu.running = pre.running

\* STA $0210 has stored A = 0x50 with the flags Z and N set beforehand.
StoresWriteOnlyTargetWitness ==
    /\ last.op = "step"
    /\ last.ret
    /\ fetched(last.pre) = \h8D
    /\ effectiveAddress(last.pre, "absolute") = \h0210
    /\ last.pre.A = \h50
    /\ last.pre.P = 227
    /\ read(last.pre, \h0210) = 0
    /\ read(cpu, \h0210) = \h50
    /\ cpu.P = 227

\* C32: CMP, CPX and CPY leave the compared register, the other registers
\* and the memory unchanged and set C = 1 iff r >= m, Z = 1 iff r = m and
\* N = bit 7 of (r - m) mod 256, the other flags staying as they were.
CompareSetsFlagsOnly ==
    (/\ last.op = "step"
     /\ last.ret
     /\ fetched(last.pre) \in DOMAIN instructions
     /\ instructions[fetched(last.pre)].name \in {"CMP", "CPX", "CPY"})
    => LET pre  == last.pre
           name == instructions[fetched(pre)].name
           r    == CASE name = "CMP" -> pre.A
                     [] name = "CPX" -> pre.X
                     [] name = "CPY" -> pre.Y
           m    == operandOf(pre, instructions[fetched(pre)].mode)
       IN  /\ cpu.A = pre.A /\ cpu.X = pre.X /\ cpu.Y = pre.Y
           /\ cpu.SP = pre.SP /\ cpu.memory = pre.memory
           /\ (cpu.P % 2 = 1) <=> (r >= m)
           /\ ((cpu.P \div 2) % 2 = 1) <=> (r = m)
           /\ ((cpu.P \div 128) % 2 = 1) <=> (((r - m) % 256) >= 128)
           /\ (cpu.P \div 4) % 32 = (pre.P \div 4) % 32

\* CPY #$80 with Y = 0x7F: below the operand, no carry, N from 0xFF.
CompareSetsFlagsOnlyWitness ==
    /\ last.op = "step"
    /\ last.ret
    /\ fetched(last.pre) = \hC0
    /\ last.pre.Y = \h7F
    /\ operandOf(last.pre, "immediate") = \h80
    /\ cpu.Y = \h7F
    /\ cpu.P % 2 = 0
    /\ (cpu.P \div 2) % 2 = 0
    /\ (cpu.P \div 128) % 2 = 1

\* C33: BIT leaves A (and X, Y, SP, memory) unchanged and sets Z = 1 iff
\* A AND v is 0, N = bit 7 of v and V = bit 6 of v, leaving C, I, D, B and
\* bit 5 as they were.
BitTestsOperand ==
    (/\ last.op = "step"
     /\ last.ret
     /\ fetched(last.pre) \in DOMAIN instructions
     /\ instructions[fetched(last.pre)].name = "BIT")
    => LET pre == last.pre
           v   == operandOf(pre, instructions[fetched(pre)].mode)
       IN  /\ cpu.A = pre.A /\ cpu.X = pre.X /\ cpu.Y = pre.Y
           /\ cpu.SP = pre.SP /\ cpu.memory = pre.memory
           /\ ((cpu.P \div 2) % 2 = 1) <=> (BitAnd(pre.A, v) = 0)
           /\ (cpu.P \div 128) % 2 = (v \div 128) % 2
           /\ (cpu.P \div 64) % 2 = (v \div 64) % 2
           /\ cpu.P % 2 = pre.P % 2
           /\ (cpu.P \div 4) % 16 = (pre.P \div 4) % 16

\* BIT has tested 0xC0 with A = 0x01 and the carry set: Z, N and V set, the
\* carry still set.
BitTestsOperandWitness ==
    /\ last.op = "step"
    /\ last.ret
    /\ fetched(last.pre) = \h2C
    /\ last.pre.A = \h01
    /\ operandOf(last.pre, "absolute") = \hC0
    /\ last.pre.P % 2 = 1
    /\ cpu.P = \hE3
    /\ cpu.A = \h01

\* C34: PHP stores P with bit 4 (Break) set on the stack and leaves P as it
\* was; PLP loads P from the stack, then clears bit 4 and sets bit 5; and PLP
\* directly after PHP leaves SP as it was before the PHP and P as it was
\* with the Break bit cleared.
PhpPlpKeepStatus ==
    (/\ last.op = "step"
     /\ last.ret
     /\ fetched(last.pre) \in {\h08, \h28})
    => LET pre == last.pre
           up  == 256 + ((pre.SP + 1) % 256)
       IN  /\ fetched(pre) = \h08 =>
                /\ read(cpu, 256 + pre.SP) = BitOr(pre.P, 16)
                /\ cpu.P = pre.P
           /\ fetched(pre) = \h28 =>
                cpu.P = BitOr(BitAnd(read(pre, up), 239), 32)
           /\ (/\ last.via = "run" /\ last.steps = 1
               /\ fetched(frame.pre) = \h08 /\ fetched(pre) = \h28) =>
                /\ cpu.SP = frame.pre.SP
                /\ cpu.P = BitAnd(frame.pre.P, 239)

\* PHP and PLP with Break set in P: 0xF3 pushed, 0xE3 left in P.
PhpPlpKeepStatusWitness ==
    /\ last.op = "step"
    /\ last.via = "run"
    /\ last.steps = 1
    /\ last.ret
    /\ fetched(frame.pre) = \h08
    /\ fetched(last.pre) = \h28
    /\ frame.pre.P = \hF3
    /\ frame.pre.SP = \hFF
    /\ read(cpu, \h01FF) = \hF3
    /\ cpu.P = \hE3
    /\ cpu.SP = \hFF

\* C35: a branch is taken exactly when its flag condition holds (BEQ Z=1,
\* BNE Z=0, BCC C=0, BCS C=1, BMI N=1, BPL N=0, BVC V=0, BVS V=1); taken
\* from address a with offset byte b, PC becomes (a + 2 + s) mod 65536 with
\* s = b for b in 0..127 and s = b - 256 for b in 128..255; not taken,
\* execution goes on at a + 2; and a branch changes no register other than
\* PC, no flag and no memory.
BranchTakenOnCondition ==
    (/\ last.op = "step"
     /\ last.ret
     /\ fetched(last.pre) \in DOMAIN instructions
     /\ instructions[fetched(last.pre)].name \in BranchMnemonics)
    => LET pre == last.pre
           b   == read(pre, pre.PC + 1)
           s   == IF b <= 127 THEN b ELSE b - 256
       IN  /\ IF conditionHolds(instructions[fetched(pre)].name, pre)
              THEN cpu.PC = (pre.PC + 2 + s) % 65536
              ELSE cpu.PC % 65536 = (pre.PC + 2) % 65536
           /\ cpu.A = pre.A /\ cpu.X = pre.X /\ cpu.Y = pre.Y
           /\ cpu.SP = pre.SP /\ cpu.P = pre.P
           /\ cpu.memory = pre.memory

\* BVS with V set and offset byte 0x80 has gone back 128 bytes from the
\* address after the branch.
BranchTakenOnConditionWitness ==
    /\ last.op = "step"
    /\ last.ret
    /\ fetched(last.pre) = \h70
    /\ last.pre.PC = \h0600
    /\ read(last.pre, \h0601) = \h80
    /\ last.pre.P = \hE3
    /\ cpu.PC = \h0582

\* C36: step() with 0xAE (LDX absolute) or 0xAC (LDY absolute) at PC
\* executes: it returns true, loads X (resp. Y) from the addressed byte,
\* sets Z and N from it, and leaves the CPU running.
AbsoluteIndexLoadsExecute ==
    (/\ last.op = "step"
     /\ last.pre.running
     /\ last.pre.assembled
     /\ fetched(last.pre) \in {\hAE, \hAC})
    => LET v   == operandOf(last.pre, "absolute")
           reg == IF fetched(last.pre) = \hAE THEN cpu.X ELSE cpu.Y
       IN  /\ last.ret
           /\ cpu.running
           /\ reg = v
           /\ ((cpu.P \div 2) % 2 = 1) <=> (v = 0)
           /\ ((cpu.P \div 128) % 2 = 1) <=> (v >= 128)

\* The program defines the same label identifier on more than one line.
duplicateLabel(lines) ==
    \E i, j \in 1..Len(lines) :
        /\ i < j
        /\ isLabelLine(lines[i])
        /\ isLabelLine(lines[j])
        /\ labelOf(lines[i]) = labelOf(lines[j])

\* C37: assemble fails on every source that defines the same label
\* identifier more than once.
DuplicateLabelRejected ==
    (last.op = "assemble" /\ duplicateLabel(sourceLines(last.src)))
    => ~last.ret

\* C38: assemble is a function of the source text only: on an Assembler
\* that has assembled other sources before, it returns (or throws) what it
\* does on a new Assembler, and leaves the label table it leaves there; so
\* a label defined only in an earlier source is unresolved.
AssembleDependsOnSourceOnly ==
    last.op = "assemble"
    => /\ last.out = assemble(last.src)
       /\ labels = assemble(last.src).labels

\* `JMP L` has been rejected on the Assembler that had assembled
\* `L: / LDA #$01`, the program still in memory.
AssembleDependsOnSourceOnlyWitness ==
    /\ last.op = "assemble"
    /\ calls = 2
    /\ last.src = <<<<"J", "M", "P", " ", "L">>>>
    /\ ~last.ret
    /\ labels = <<>>
    /\ read(cpu, \h0600) = \hA9
    /\ read(cpu, \h0601) = \h01

\* the value of the byte v read as a signed 8-bit number
signed8(v) == IF v >= 128 THEN v - 256 ELSE v

\* C39: for every accumulator, operand and carry, SBC sets V exactly when
\* the canonical test ((A ^ operand) & (A ^ r) & 0x80) # 0 on the 8-bit
\* result r holds, that is exactly when the signed subtraction
\* A - operand - borrow falls outside -128..127.
SbcOverflowIsSigned ==
    (/\ last.op = "step"
     /\ last.ret
     /\ fetched(last.pre) \in DOMAIN instructions
     /\ instructions[fetched(last.pre)].name = "SBC"
     /\ last.pre.A \in 0..255)
    => LET a    == last.pre.A
           v    == operandOf(last.pre, instructions[fetched(last.pre)].mode)
           diff == signed8(a) - signed8(v) - (1 - (last.pre.P % 2))
           r    == (a - v - (1 - (last.pre.P % 2))) % 256
           v7   == (cpu.P \div 64) % 2 = 1
       IN  /\ v7 <=> (diff < -128 \/ diff > 127)
           /\ v7 <=> (((a \div 128) % 2 # (v \div 128) % 2)
                        /\ ((a \div 128) % 2 # (r \div 128) % 2))

\* SBC #$80 with A = 0 and the carry set: 0 - (-128) = 128 is out of range,
\* the result before masking is -128, and V is set with the carry clear.
SbcOverflowIsSignedWitness ==
    /\ last.op = "step"
    /\ last.ret
    /\ fetched(last.pre) = \hE9
    /\ last.pre.A = 0
    /\ operandOf(last.pre, "immediate") = \h80
    /\ last.pre.P % 2 = 1
    /\ cpu.A = \h80
    /\ (cpu.P \div 64) % 2 = 1
    /\ cpu.P % 2 = 0

\* run() has returned, entered right after `source` was assembled and
\* loaded, whatever the processor had done before
ranAfterAssemble(source) ==
    /\ last.op = "run"
    /\ last.src = source
    /\ last.out.ok
    /\ last.pre.assembled
    /\ last.pre.PC = last.out.startAddress
    /\ last.pre.memory = loadResult(resetState, last.out).memory

\* C40: what Run leaves after a successful Assemble does not depend on what
\* ran before on the same processor: `LDA #$05 / ADC #$03 / STA $0200 / BRK`
\* leaves A = 0x08 and 0x08 at $0200 with C, V, Z and N clear, as it does
\* from the state after reset.
RunIgnoresEarlierRuns ==
    ranAfterAssemble(SourceCalc)
    => /\ cpu.A = \h08
       /\ read(cpu, \h0200) = \h08
       /\ ~getFlag(cpu, FLAG_CARRY)
       /\ ~getFlag(cpu, FLAG_OVERFLOW)
       /\ ~getFlag(cpu, FLAG_ZERO)
       /\ ~getFlag(cpu, FLAG_NEGATIVE)

=============================================================================
